---- MODULE Spec2Model ----
(***************************************************************************)
(* vault-cert-manager: the certificate lifecycle manager (pkg/cert), the   *)
(* Vault session with its token renewal loop (pkg/vault) and the           *)
(* renewal-due predicate, as state machines.                               *)
(*                                                                         *)
(* Time is counted in units of 30 minutes (Hour == 2).  A PEM text is a    *)
(* sequence of items, each a PEM block or a line of other text; a file is  *)
(* a record of its content and its permission bits.                        *)
(***************************************************************************)
EXTENDS Integers, Sequences, FiniteSets, TLC

VARIABLES
    now,            \* time.Now(), in units
    certificates,   \* Manager.certificates: name -> ManagedCertificate (or NotRegistered)
    files,          \* the file system: path -> file (or NoFile)
    nextSerial,     \* serial number the backend gives to its next certificate
    pass,           \* "idle" or "running": position of ProcessCertificates
    todo,           \* targets the running pass has not ranged over yet
    passes,         \* number of ProcessCertificates calls that have returned
    passRet,        \* return value of the last ProcessCertificates call
    last,           \* per target: what the current/last pass did with it
    prev,           \* per target: outcome of the pass before
    loadErr,        \* per target: result of the load at registration
    window,         \* passes started and successful issues since time last advanced
    addRet,         \* name and return value of the last AddCertificate call
    mu,             \* VaultClient.mu: the RWMutex
    loopPc,         \* position of tokenRenewalLoop
    issuerPc,       \* per caller: position inside VaultClient.IssueCertificate
    cancelled,      \* v.ctx is cancelled
    token,          \* the client's current token (a login counter)
    ticks,          \* ticks of the 45-minute ticker consumed
    client,         \* what NewClient returned, and how it got there
    lastRenew,      \* outcome of the last renewToken call of the loop
    lastAuth,       \* outcome of the last reAuthenticate call of the loop
    mainPc,         \* position of main
    appCancelled,   \* App.ctx is cancelled
    task,           \* per goroutine started by App.Run: position and work done
    probe,          \* one TCPChecker.Check call: its inputs, position and result
    trig,           \* per goroutine that calls into the Manager: position, calls made
    view,           \* one certificate of getCertStatuses: its inputs and its CertStatus
    poll,           \* one Aggregator.fetchAllStatuses call
    proxy,          \* one request served by Aggregator.handleAPIRotate
    q,              \* input of the renewal-due query
    ans,            \* result of the renewal-due query
    cfg,            \* the auth section of a configuration file and its validation
    race            \* one ManagedCertificate, the issue that writes it and a reader

mgrVars == <<now, certificates, files, nextSerial, pass, todo, passes, passRet,
             last, prev, loadErr, window, addRet>>
sessVars == <<mu, loopPc, issuerPc, cancelled, token, ticks, client, lastRenew,
              lastAuth>>
appVars == <<mainPc, appCancelled, task>>
webVars == <<probe, trig, view, poll, proxy>>
dueVars == <<q, ans, cfg, race>>
vars == <<now, certificates, files, nextSerial, pass, todo, passes, passRet,
          last, prev, loadErr, window, addRet,
          mu, loopPc, issuerPc, cancelled, token, ticks, client, lastRenew,
          lastAuth,
          mainPc, appCancelled, task,
          probe, trig, view, poll, proxy, q, ans, cfg, race>>

----------------------------------------------------------------------------
(* Bounds *)

MaxTime == 1
MaxIssue == 2
MaxPasses == 2
MaxTicks == 2
MaxLogins == 2
MaxWork == 1
MaxCalls == 2
MaxPeers == 3
MaxQueryTime == 1
MaxQueryNotAfter == 6

(* Program constants *)

Hour == 2                       \* time.Hour, in units
ModeCombined == 600             \* 0600
ModeCert == 644                 \* 0644
ModeKey == 600                  \* 0600

----------------------------------------------------------------------------
(* Go arithmetic on time.Duration and time.Time *)

\* integer division truncating toward zero
GoDiv(a, b) == IF a >= 0 THEN a \div b ELSE -((-a) \div b)

\* Time.Add
Add(t, d) == t + d

After_OrEqual(t, u) == t >= u

\* Time.After: strictly later
After(t, u) == t > u

----------------------------------------------------------------------------
(* Configuration: config.CertificateConfig *)

Targets == {"web", "api"}

Config ==
    [t \in Targets |->
        IF t = "web"
        THEN [Name |-> "web", Certificate |-> "web.crt", Key |-> "web.key",
              TTL |-> 3 * Hour, OnChange |-> ""]
        ELSE [Name |-> "api", Certificate |-> "api.pem", Key |-> "api.pem",
              TTL |-> 2 * Hour, OnChange |-> "reload"]]

Paths == {"web.crt", "web.key", "api.pem"}

IsCombinedFile(c) == c.Certificate = c.Key

----------------------------------------------------------------------------
(* PEM texts and files *)

ZeroTime == -1                  \* the zero time.Time

CertBlock(serial, notAfter) ==
    [type |-> "CERTIFICATE", der |-> serial, notAfter |-> notAfter]
KeyBlock(serial) == [type |-> "PRIVATE KEY", der |-> serial, notAfter |-> 0]
CABlock == [type |-> "CERTIFICATE", der |-> 100, notAfter |-> 20]
TextItem == [type |-> "TEXT", der |-> 0, notAfter |-> 0]

NoFile == [exists |-> FALSE, content |-> <<>>, mode |-> 0]
File(content, mode) == [exists |-> TRUE, content |-> content, mode |-> mode]

NoBlock == [type |-> "NONE", der |-> 0, notAfter |-> 0]

\* pem.Decode: the first PEM block of the text, skipping anything else
RECURSIVE pemDecode(_)
pemDecode(text) ==
    IF text = <<>> THEN NoBlock
    ELSE IF Head(text).type # "TEXT" THEN Head(text)
    ELSE pemDecode(Tail(text))

\* hex(sha256(der)); the empty string is <<>>
Sha256Hex(der) == <<"sha256", der>>

calculateFingerprint_LastBlock(certData) ==
    LET block == pemDecode(certData)
    IN IF block = NoBlock THEN <<>> ELSE Sha256Hex(certData[Len(certData)].der)

calculateFingerprint(certData) ==
    LET block == pemDecode(certData)
    IN IF block = NoBlock THEN <<>> ELSE Sha256Hex(block.der)

fileExists(fs, filename) == fs[filename].exists

----------------------------------------------------------------------------
(* ManagedCertificate *)

NoCert == [present |-> FALSE, NotAfter |-> 0, der |-> 0]

NotRegistered ==
    [registered |-> FALSE, LastRenewed |-> ZeroTime, NextRenewal |-> ZeroTime,
     Certificate |-> NoCert, Fingerprint |-> <<>>, RenewalJitter |-> 0,
     TTL |-> 0, Name |-> ""]

NewManaged(t, jitter) ==
    [registered |-> TRUE, LastRenewed |-> ZeroTime, NextRenewal |-> ZeroTime,
     Certificate |-> NoCert, Fingerprint |-> <<>>, RenewalJitter |-> jitter,
     TTL |-> Config[t].TTL, Name |-> t]

RenewalThreshold_WholeTTL(managed) ==
    Add(managed.Certificate.NotAfter, -managed.TTL - managed.RenewalJitter)

\* NotAfter.Add(-TTL/3 - RenewalJitter)
RenewalThreshold(managed) ==
    Add(managed.Certificate.NotAfter, GoDiv(-managed.TTL, 3) - managed.RenewalJitter)

needsRenewal_Swapped(managed, tnow) ==
    IF ~managed.Certificate.present THEN FALSE
    ELSE After(RenewalThreshold(managed), tnow)

needsRenewal(managed, tnow) ==
    IF ~managed.Certificate.present THEN FALSE
    ELSE After(tnow, RenewalThreshold(managed))

certificateExists_CertOnly(managed, fs) ==
    fileExists(fs, Config[managed.Name].Certificate)

certificateExists(managed, fs) ==
    LET certExists == fileExists(fs, Config[managed.Name].Certificate)
        keyExists == fileExists(fs, Config[managed.Name].Key)
    IN IF IsCombinedFile(Config[managed.Name]) THEN certExists
       ELSE certExists /\ keyExists

\* result: err is "" (nil), "read", "decode"
loadExistingCertificate(managed, fs, readable) ==
    LET f == fs[Config[managed.Name].Certificate]
        block == pemDecode(f.content)
    IN IF ~f.exists \/ ~readable THEN [err |-> "read", managed |-> managed]
       ELSE IF block = NoBlock \/ block.type # "CERTIFICATE"
       THEN [err |-> "decode", managed |-> managed]
       ELSE [err |-> "",
             managed |-> [managed EXCEPT
                 !.Certificate = [present |-> TRUE, NotAfter |-> block.notAfter,
                                  der |-> block.der],
                 !.Fingerprint = calculateFingerprint(f.content)]]

----------------------------------------------------------------------------
(* The backend and the environment of one issueCertificate call *)

\* what the backend may answer: a short-lived leaf with the CA chain, a
\* long-lived leaf without chain, or a certificate field that is not PEM
ResponseKinds ==
    {[validity |-> 1, leafIsPEM |-> TRUE, withChain |-> TRUE],
     [validity |-> 8, leafIsPEM |-> TRUE, withChain |-> FALSE],
     [validity |-> 8, leafIsPEM |-> FALSE, withChain |-> FALSE]}

\* vault.CertificateData; ok = FALSE is the error return of IssueCertificate
NoMaterial ==
    [ok |-> FALSE, Certificate |-> <<>>, PrivateKey |-> <<>>,
     CertificateChain |-> <<>>]

Material(serial, notAfter, leafIsPEM, withChain) ==
    [ok |-> TRUE,
     Certificate |-> IF leafIsPEM THEN <<CertBlock(serial, notAfter)>>
                     ELSE <<TextItem>>,
     PrivateKey |-> <<KeyBlock(serial)>>,
     CertificateChain |-> IF withChain THEN <<CABlock>> ELSE <<>>]

WriteOutcomes == {"ok", "openfail", "writefail"}

\* what the world answers during one call: the backend's response, the
\* results of MkdirAll, of the two os.WriteFile calls, of os.ReadFile and
\* of the on_change command
Env(serial, tnow) ==
    [resp : {NoMaterial} \cup
            (IF serial <= MaxIssue
             THEN {Material(serial, tnow + k.validity, k.leafIsPEM, k.withChain) :
                      k \in ResponseKinds}
             ELSE {}),
     mkdir : BOOLEAN, wcert : WriteOutcomes, wkey : WriteOutcomes,
     readable : BOOLEAN, hook : BOOLEAN]

\* os.WriteFile: O_WRONLY|O_CREATE|O_TRUNC with perm applied on creation only
writeFileWithPermissions(fs, filename, content, mode, outcome) ==
    LET newMode == IF fs[filename].exists THEN fs[filename].mode ELSE mode
    IN CASE outcome = "ok" ->
              [err |-> FALSE, files |-> [fs EXCEPT ![filename] = File(content, newMode)]]
         [] outcome = "openfail" ->
              [err |-> TRUE, files |-> fs]
         [] outcome = "writefail" ->
              [err |-> TRUE, files |-> [fs EXCEPT ![filename] = File(<<>>, newMode)]]

writeCertificateToDisk_NoKey(managed, certData, fs, e) ==
    LET c == Config[managed.Name]
        fullCert == IF certData.CertificateChain # <<>>
                    THEN certData.Certificate \o certData.CertificateChain
                    ELSE certData.Certificate
    IN IF ~e.mkdir THEN [err |-> TRUE, files |-> fs]
       ELSE IF IsCombinedFile(c)
       THEN writeFileWithPermissions(fs, c.Certificate,
                fullCert \o certData.PrivateKey, ModeCombined, e.wcert)
       ELSE writeFileWithPermissions(fs, c.Certificate, fullCert,
                ModeCert, e.wcert)

writeCertificateToDisk(managed, certData, fs, e) ==
    LET c == Config[managed.Name]
        fullCert == IF certData.CertificateChain # <<>>
                    THEN certData.Certificate \o certData.CertificateChain
                    ELSE certData.Certificate
    IN IF ~e.mkdir THEN [err |-> TRUE, files |-> fs]
       ELSE IF IsCombinedFile(c)
       THEN writeFileWithPermissions(fs, c.Certificate,
                fullCert \o certData.PrivateKey, ModeCombined, e.wcert)
       ELSE LET w1 == writeFileWithPermissions(fs, c.Certificate, fullCert,
                          ModeCert, e.wcert)
            IN IF w1.err THEN w1
               ELSE writeFileWithPermissions(w1.files, c.Key,
                        certData.PrivateKey, ModeKey, e.wkey)

\* result of a call that was not made
NoIssue(managed, fs) ==
    [called |-> FALSE, err |-> "", managed |-> managed, files |-> fs,
     issued |-> 0, hookRan |-> FALSE, hookFailed |-> FALSE,
     certData |-> NoMaterial, hooks |-> <<>>]

OnHookError_Returns(failed) == IF failed THEN "hook" ELSE ""

\* what issueCertificate returns after the on_change command: its failure
\* is logged as a warning only
OnHookError(failed) == ""

runOnChangeScript_BeforeStamp(loaded, stamped, fs) ==
    [managed |-> loaded, files |-> fs]

\* what the on_change command finds when it runs: the entry as it is after
\* the reload (loaded) and the two assignments (stamped), and the disk
runOnChangeScript(loaded, stamped, fs) == [managed |-> stamped, files |-> fs]

\* err: "" (nil), "backend", "write", "reload"
issueCertificate(managed, fs, tnow, e) ==
    LET certData == e.resp
        w == writeCertificateToDisk(managed, certData, fs, e)
        l == loadExistingCertificate(managed, w.files, e.readable)
    IN IF ~certData.ok
       THEN [called |-> TRUE, err |-> "backend", managed |-> managed,
             files |-> fs, issued |-> 0, hookRan |-> FALSE,
             hookFailed |-> FALSE, certData |-> NoMaterial, hooks |-> <<>>]
       ELSE IF w.err
       THEN [called |-> TRUE, err |-> "write", managed |-> managed,
             files |-> w.files, issued |-> 1, hookRan |-> FALSE,
             hookFailed |-> FALSE, certData |-> certData, hooks |-> <<>>]
       ELSE IF l.err # ""
       THEN [called |-> TRUE, err |-> "reload", managed |-> managed,
             files |-> w.files, issued |-> 1, hookRan |-> FALSE,
             hookFailed |-> FALSE, certData |-> certData, hooks |-> <<>>]
       ELSE LET hookRan == Config[managed.Name].OnChange # ""
                hookFailed == hookRan /\ ~e.hook
                stamped == [l.managed EXCEPT
                               !.LastRenewed = tnow,
                               !.NextRenewal = RenewalThreshold(l.managed)]
            IN [called |-> TRUE, err |-> OnHookError(hookFailed),
                managed |-> stamped,
                files |-> w.files, issued |-> 1,
                hookRan |-> hookRan, hookFailed |-> hookFailed,
                certData |-> certData,
                hooks |-> IF hookRan
                          THEN <<runOnChangeScript(l.managed, stamped, w.files)>>
                          ELSE <<>>]

renewCertificate_StampsFirst(managed, fs, tnow, e) ==
    [issueCertificate(managed, fs, tnow, e) EXCEPT !.managed.LastRenewed = tnow]

renewCertificate(managed, fs, tnow, e) == issueCertificate(managed, fs, tnow, e)

----------------------------------------------------------------------------
(* Manager: registration and ProcessCertificates *)

InitNotAfters == {2, 9}

\* what an earlier run or the operator left on disk
InitDisks ==
    {[p \in Paths |-> IF p = "web.crt" THEN w[1] ELSE IF p = "web.key" THEN w[2] ELSE a] :
        w \in {<<NoFile, NoFile>>,
               <<File(<<TextItem>>, ModeCert), File(<<KeyBlock(0)>>, ModeKey)>>} \cup
              {<<File(<<CertBlock(0, na)>>, ModeCert), File(<<KeyBlock(0)>>, ModeKey)>> :
                  na \in InitNotAfters} \cup
              {<<File(<<CertBlock(0, 9)>>, ModeCert), NoFile>>},
        a \in {NoFile, File(<<TextItem>>, ModeCombined),
               File(<<CertBlock(0, 2), KeyBlock(0)>>, ModeCombined)}}

NotExamined ==
    [examined |-> FALSE, wasDue |-> FALSE, wasMissing |-> FALSE,
     attempts |-> 0, outcome |-> "none", order |-> 0,
     hookFailed |-> FALSE, certData |-> NoMaterial, hooks |-> <<>>]

\* no AddCertificate call since the configuration was read
NoAdd == [name |-> "", ret |-> "none"]

NoWindow ==
    [passes |-> 0, ok |-> [t \in Targets |-> 0],
     dueAtIssue |-> [t \in Targets |-> FALSE]]

Registered == {t \in Targets : certificates[t].registered}

Min(a, b) == IF a < b THEN a ELSE b

MgrInit ==
    /\ now = 0
    /\ certificates = [t \in Targets |-> NotRegistered]
    /\ files \in InitDisks
    /\ nextSerial = 1
    /\ pass = "idle"
    /\ todo = {}
    /\ passes = 0
    /\ passRet = "none"
    /\ last = [t \in Targets |-> NotExamined]
    /\ prev = [t \in Targets |-> "none"]
    /\ loadErr = [t \in Targets |-> ""]
    /\ window = NoWindow
    /\ addRet = NoAdd

\* time passes
Tick ==
    /\ now < MaxTime
    /\ now' = now + 1
    /\ window' = [NoWindow EXCEPT !.passes = IF pass = "running" THEN 1 ELSE 0]
    /\ UNCHANGED <<certificates, files, nextSerial, pass, todo, passes, passRet,
                   last, prev, loadErr, addRet>>

JitterRange_Inclusive == 0 .. Hour

\* rand.Int63n(int64(time.Hour))
JitterRange == 0 .. (Hour - 1)

AddCertificateResult_Replaces(t, jitter, readable) ==
    LET l == loadExistingCertificate(NewManaged(t, jitter), files, readable)
    IN [ret |-> IF certificates[t].registered THEN "exists" ELSE "nil",
        managed |-> l.managed, loadErr |-> l.err]

\* what AddCertificate returns and leaves in the map, given the jitter
\* drawn and whether the certificate file can be read
AddCertificateResult(t, jitter, readable) ==
    IF certificates[t].registered
    THEN [ret |-> "exists", managed |-> certificates[t], loadErr |-> loadErr[t]]
    ELSE LET l == loadExistingCertificate(NewManaged(t, jitter), files, readable)
         IN [ret |-> "nil", managed |-> l.managed, loadErr |-> l.err]

AddCertificate(t) ==
    /\ pass = "idle"
    /\ passes = 0
    /\ \E jitter \in JitterRange, readable \in BOOLEAN :
          LET r == AddCertificateResult(t, jitter, readable)
          IN /\ certificates' = [certificates EXCEPT ![t] = r.managed]
             /\ loadErr' = [loadErr EXCEPT ![t] = r.loadErr]
             /\ addRet' = [name |-> t, ret |-> r.ret]
    /\ UNCHANGED <<now, files, nextSerial, pass, todo, passes, passRet, last,
                   prev, window>>

StartPass ==
    /\ pass = "idle"
    /\ passes < MaxPasses
    /\ pass' = "running"
    /\ todo' = Registered
    /\ prev' = [t \in Targets |-> last[t].outcome]
    /\ last' = [t \in Targets |-> NotExamined]
    /\ window' = [window EXCEPT !.passes = Min(window.passes + 1, 3)]
    /\ addRet' = NoAdd
    /\ UNCHANGED <<now, certificates, files, nextSerial, passes, passRet,
                   loadErr>>

AfterTarget_ReturnOnError(td, t, failed) == IF failed THEN {} ELSE td \ {t}

\* the targets the loop still ranges over after the body ran for t
AfterTarget(td, t, failed) == td \ {t}

ProcessCertificatesReturn_Aggregate(anyFailed) ==
    IF anyFailed THEN "error" ELSE "nil"

\* the value ProcessCertificates returns when its loop is over
ProcessCertificatesReturn(anyFailed) == "nil"

Succeeded(r) == r.called /\ r.err = ""

RenewFailed_FallsThrough(r) == FALSE

\* renewCertificate returned an error: the loop body ends with continue
RenewFailed(r) == r.err # ""

\* the effect of one iteration of the loop, given the two calls it made;
\* missing0 records whether a file of the target was absent when it began
Finish(t, due, missing0, r1, r2) ==
    LET final == IF r2.called THEN r2 ELSE r1
        calls == (IF r1.called THEN 1 ELSE 0) + (IF r2.called THEN 1 ELSE 0)
        oks == (IF Succeeded(r1) THEN 1 ELSE 0) + (IF Succeeded(r2) THEN 1 ELSE 0)
        dueNew == \/ Succeeded(r1) /\ needsRenewal(r1.managed, now)
                  \/ Succeeded(r2) /\ needsRenewal(r2.managed, now)
    IN /\ certificates' = [certificates EXCEPT ![t] = final.managed]
       /\ files' = final.files
       /\ nextSerial' = nextSerial + r1.issued + r2.issued
       /\ last' = [last EXCEPT ![t] =
              [examined |-> TRUE, wasDue |-> due, wasMissing |-> missing0,
               attempts |-> calls,
               outcome |-> IF calls = 0 THEN "none"
                           ELSE IF final.err = "" THEN "ok" ELSE final.err,
               order |-> Cardinality({u \in Targets : last[u].examined}),
               hookFailed |-> final.hookFailed,
               certData |-> final.certData,
               hooks |-> r1.hooks \o r2.hooks]]
       /\ todo' = AfterTarget(todo, t, final.err # "")
       /\ window' = [window EXCEPT
              !.ok[t] = Min(@ + oks, 2),
              !.dueAtIssue[t] = @ \/ dueNew]
       /\ UNCHANGED <<now, pass, passes, passRet, prev, loadErr, addRet>>

\* one iteration of the range loop of ProcessCertificates
ProcessTarget(t) ==
    /\ pass = "running"
    /\ t \in todo
    /\ LET m0 == certificates[t]
           due == needsRenewal(m0, now)
           missing0 == \/ ~fileExists(files, Config[t].Certificate)
                       \/ ~fileExists(files, Config[t].Key)
           none == NoIssue(m0, files)
       IN IF due
          THEN \E e1 \in Env(nextSerial, now) :
                 LET r1 == renewCertificate(m0, files, now, e1)
                 IN IF RenewFailed(r1) \/ certificateExists(r1.managed, r1.files)
                    THEN Finish(t, due, missing0, r1, NoIssue(r1.managed, r1.files))
                    ELSE \E e2 \in Env(nextSerial + r1.issued, now) :
                           Finish(t, due, missing0, r1,
                                  issueCertificate(r1.managed, r1.files, now, e2))
          ELSE IF ~certificateExists(m0, files)
          THEN \E e2 \in Env(nextSerial, now) :
                 Finish(t, due, missing0, none, issueCertificate(m0, files, now, e2))
          ELSE Finish(t, due, missing0, none, none)

\* forceRotate(name): bypasses the due-check and issues immediately
ForceRotate(t) ==
    /\ pass = "idle"
    /\ certificates[t].registered
    /\ nextSerial <= MaxIssue
    /\ LET m0 == certificates[t]
           missing0 == \/ ~fileExists(files, Config[t].Certificate)
                       \/ ~fileExists(files, Config[t].Key)
       IN \E e \in Env(nextSerial, now) :
             Finish(t, needsRenewal(m0, now), missing0, NoIssue(m0, files),
                    issueCertificate(m0, files, now, e))

\* forceRotate(all) is called: it will go over every registered target
ForceRotateAllCalled ==
    /\ pass = "idle"
    /\ Registered # {}
    /\ nextSerial <= MaxIssue
    /\ pass' = "rotating"
    /\ todo' = Registered
    /\ last' = [t \in Targets |-> NotExamined]
    /\ addRet' = NoAdd
    /\ UNCHANGED <<now, certificates, files, nextSerial, passes, passRet, prev,
                   loadErr, window>>

ForceRotateAllStep_ChecksDue(t) ==
    /\ pass = "rotating"
    /\ t \in todo
    /\ LET m0 == certificates[t]
           missing0 == \/ ~fileExists(files, Config[t].Certificate)
                       \/ ~fileExists(files, Config[t].Key)
       IN IF needsRenewal(m0, now) \/ missing0
          THEN \E e \in Env(nextSerial, now) :
                 Finish(t, needsRenewal(m0, now), missing0, NoIssue(m0, files),
                        issueCertificate(m0, files, now, e))
          ELSE Finish(t, FALSE, missing0, NoIssue(m0, files), NoIssue(m0, files))

\* forceRotate(all) issues for the next target, without the due-check
ForceRotateAllStep(t) ==
    /\ pass = "rotating"
    /\ t \in todo
    /\ LET m0 == certificates[t]
           missing0 == \/ ~fileExists(files, Config[t].Certificate)
                       \/ ~fileExists(files, Config[t].Key)
       IN \E e \in Env(nextSerial, now) :
             Finish(t, needsRenewal(m0, now), missing0, NoIssue(m0, files),
                    issueCertificate(m0, files, now, e))

\* forceRotate(all) returns
ForceRotateAllReturns ==
    /\ pass = "rotating"
    /\ todo = {}
    /\ pass' = "idle"
    /\ passRet' = "rotated"
    /\ UNCHANGED <<now, certificates, files, nextSerial, todo, passes, last,
                   prev, loadErr, window, addRet>>

EndPass ==
    /\ pass = "running"
    /\ todo = {}
    /\ pass' = "idle"
    /\ passes' = passes + 1
    /\ passRet' = ProcessCertificatesReturn(
                      \E t \in Targets : last[t].outcome \notin {"none", "ok"})
    /\ UNCHANGED <<now, certificates, files, nextSerial, todo, last, prev,
                   loadErr, window, addRet>>

----------------------------------------------------------------------------
(* VaultClient: the RWMutex, tokenRenewalLoop and the IssueCertificate callers *)

\* the goroutines that call IssueCertificate: the certificate processor and
\* an external trigger (signal or API handler)
Callers == {"processor", "trigger"}

CanLock_IgnoresReaders(m) == ~m.writer

\* sync.RWMutex: Lock is granted when nobody holds the mutex
CanLock(m) == ~m.writer /\ m.readers = {}

\* sync.RWMutex: RLock is granted unless a writer holds the mutex or waits for it
CanRLock(m, writerWaiting) == ~m.writer /\ ~writerWaiting

WriterWaiting == loopPc \in {"renewToken.Lock", "reAuthenticate.Waiting"}

\* config.AuthConfig: which of the four method blocks are set
AuthConfigs == [Token : BOOLEAN, GCP : BOOLEAN, TLS : BOOLEAN, AppRole : BOOLEAN]

\* the authenticator chosen, "none" for the error return
CreateAuthenticator(authConfig) ==
    IF authConfig.Token THEN "token"
    ELSE IF authConfig.GCP THEN "gcp"
    ELSE IF authConfig.TLS THEN "tls"
    ELSE IF authConfig.AppRole THEN "approle"
    ELSE "none"

Authenticate_ClearsTokenOnError(method, tok, loginOk) ==
    IF method = "token" THEN [err |-> FALSE, token |-> 1]
    ELSE IF ~loginOk THEN [err |-> TRUE, token |-> 0]
    ELSE [err |-> FALSE, token |-> IF tok <= MaxLogins THEN tok + 1 ELSE tok]

\* Authenticator.Authenticate on a client whose token is tok: the token
\* strategy sets the configured value (1) and cannot fail; the others
\* return an error when the credential cannot be prepared, the login
\* request fails or the response has no auth information, and call
\* SetToken with the token of the response otherwise
Authenticate(method, tok, loginOk) ==
    IF method = "token" THEN [err |-> FALSE, token |-> 1]
    ELSE IF ~loginOk THEN [err |-> TRUE, token |-> tok]
    ELSE [err |-> FALSE, token |-> IF tok <= MaxLogins THEN tok + 1 ELSE tok]

\* NewClient has not been called
NoClient == [state |-> "unset", method |-> "", auths |-> 0, authErr |-> FALSE]

NewClientResult_LoopBeforeAuth(authConfig, apiOk, authOk) ==
    LET a == CreateAuthenticator(authConfig)
    IN IF ~apiOk
       THEN [state |-> "error", method |-> "", auths |-> 0, authErr |-> FALSE,
             loop |-> FALSE, token |-> 0]
       ELSE IF a = "none"
       THEN [state |-> "error", method |-> a, auths |-> 0, authErr |-> FALSE,
             loop |-> FALSE, token |-> 0]
       ELSE IF Authenticate(a, 0, authOk).err
       THEN [state |-> "error", method |-> a, auths |-> 1, authErr |-> TRUE,
             loop |-> TRUE, token |-> 0]
       ELSE [state |-> "returned", method |-> a, auths |-> 1, authErr |-> FALSE,
             loop |-> TRUE, token |-> 1]

\* NewClient: state is "returned" for (vc, nil) and "error" for (nil, err);
\* auths counts the Authenticate calls made, loop says whether
\* tokenRenewalLoop was started
NewClientResult(authConfig, apiOk, authOk) ==
    LET a == CreateAuthenticator(authConfig)
    IN IF ~apiOk
       THEN [state |-> "error", method |-> "", auths |-> 0, authErr |-> FALSE,
             loop |-> FALSE, token |-> 0]
       ELSE IF a = "none"
       THEN [state |-> "error", method |-> a, auths |-> 0, authErr |-> FALSE,
             loop |-> FALSE, token |-> 0]
       ELSE IF Authenticate(a, 0, authOk).err
       THEN [state |-> "error", method |-> a, auths |-> 1, authErr |-> TRUE,
             loop |-> FALSE, token |-> 0]
       ELSE [state |-> "returned", method |-> a, auths |-> 1, authErr |-> FALSE,
             loop |-> TRUE, token |-> 1]

SessInit ==
    /\ mu = [writer |-> FALSE, readers |-> {}]
    /\ loopPc = "unstarted"
    /\ issuerPc = [i \in Callers |-> "idle"]
    /\ cancelled = FALSE
    /\ token = 0
    /\ ticks = 0
    /\ client = NoClient
    /\ lastRenew = "none"
    /\ lastAuth = "none"

NewClient ==
    /\ client.state = "unset"
    /\ \E authConfig \in AuthConfigs, apiOk \in BOOLEAN, authOk \in BOOLEAN :
          LET r == NewClientResult(authConfig, apiOk, authOk)
          IN /\ client' = [state |-> r.state, method |-> r.method,
                           auths |-> r.auths, authErr |-> r.authErr]
             /\ loopPc' = IF r.loop THEN "select" ELSE "unstarted"
             /\ token' = r.token
    /\ UNCHANGED <<mu, issuerPc, cancelled, ticks, lastRenew, lastAuth>>

\* case <-ticker.C: renewToken() is entered and calls v.mu.Lock()
TickerFires ==
    /\ loopPc = "select"
    /\ ticks < MaxTicks
    /\ ticks' = ticks + 1
    /\ loopPc' = "renewToken.Lock"
    /\ UNCHANGED <<mu, issuerPc, cancelled, token, client, lastRenew, lastAuth>>

\* v.mu.Lock() returns in renewToken; RenewSelf is sent
RenewTokenLocked ==
    /\ loopPc = "renewToken.Lock"
    /\ CanLock(mu)
    /\ mu' = [mu EXCEPT !.writer = TRUE]
    /\ loopPc' = "renewToken.RenewSelf"
    /\ UNCHANGED <<issuerPc, cancelled, token, ticks, client, lastRenew, lastAuth>>

\* RenewSelf answers; the deferred Unlock runs; on error the loop goes on
\* to reAuthenticate(), which calls v.mu.Lock()
AfterRenew_AlwaysReAuth(ok) == "reAuthenticate.Lock"

\* where the loop goes when renewToken has returned
AfterRenew(ok) == IF ok THEN "select" ELSE "reAuthenticate.Lock"

RenewTokenReturns ==
    /\ loopPc = "renewToken.RenewSelf"
    /\ mu' = [mu EXCEPT !.writer = FALSE]
    /\ \E ok \in BOOLEAN :
          /\ loopPc' = AfterRenew(ok)
          /\ lastRenew' = IF ok THEN "ok" ELSE "failed"
    /\ UNCHANGED <<issuerPc, cancelled, token, ticks, client, lastAuth>>

\* renewToken has returned its error and released the mutex; the loop logs
\* the error, enters reAuthenticate and calls v.mu.Lock()
ReAuthenticateCalled ==
    /\ loopPc = "reAuthenticate.Lock"
    /\ loopPc' = "reAuthenticate.Waiting"
    /\ UNCHANGED <<mu, issuerPc, cancelled, token, ticks, client, lastRenew, lastAuth>>

\* v.mu.Lock() returns in reAuthenticate; the authenticator runs
ReAuthenticateLocked ==
    /\ loopPc = "reAuthenticate.Waiting"
    /\ CanLock(mu)
    /\ mu' = [mu EXCEPT !.writer = TRUE]
    /\ loopPc' = "reAuthenticate.Authenticate"
    /\ UNCHANGED <<issuerPc, cancelled, token, ticks, client, lastRenew, lastAuth>>

\* Authenticate answers: a login sets a new token, a failure leaves it
AfterReAuth_ExitOnFailure(ok) == IF ok THEN "select" ELSE "exited"

\* where the loop goes when reAuthenticate has returned: its error is logged
AfterReAuth(ok) == "select"

ReAuthenticateReturns ==
    /\ loopPc = "reAuthenticate.Authenticate"
    /\ mu' = [mu EXCEPT !.writer = FALSE]
    /\ \E loginOk \in BOOLEAN :
          LET r == Authenticate(client.method, token, loginOk)
          IN /\ token' = r.token
             /\ loopPc' = AfterReAuth(~r.err)
             /\ lastAuth' = IF r.err THEN "failed" ELSE "ok"
    /\ UNCHANGED <<issuerPc, cancelled, ticks, client, lastRenew>>

\* VaultClient.Close
Close ==
    /\ client.state = "returned"
    /\ ~cancelled
    /\ cancelled' = TRUE
    /\ UNCHANGED <<mu, loopPc, issuerPc, token, ticks, client, lastRenew, lastAuth>>

\* case <-v.ctx.Done(): return
LoopExits ==
    /\ loopPc = "select"
    /\ cancelled
    /\ loopPc' = "exited"
    /\ UNCHANGED <<mu, issuerPc, cancelled, token, ticks, client, lastRenew, lastAuth>>

\* a caller enters IssueCertificate and calls v.mu.RLock()
IssueCalled(i) ==
    /\ client.state = "returned"
    /\ issuerPc[i] = "idle"
    /\ issuerPc' = [issuerPc EXCEPT ![i] = "RLock"]
    /\ UNCHANGED <<mu, loopPc, cancelled, token, ticks, client, lastRenew, lastAuth>>

\* v.mu.RLock() returns; the request is written to the backend
IssueLocked(i) ==
    /\ issuerPc[i] = "RLock"
    /\ CanRLock(mu, WriterWaiting)
    /\ mu' = [mu EXCEPT !.readers = @ \cup {i}]
    /\ issuerPc' = [issuerPc EXCEPT ![i] = "Write"]
    /\ UNCHANGED <<loopPc, cancelled, token, ticks, client, lastRenew, lastAuth>>

\* the backend answers; the deferred RUnlock runs
IssueReturns(i) ==
    /\ issuerPc[i] = "Write"
    /\ mu' = [mu EXCEPT !.readers = @ \ {i}]
    /\ issuerPc' = [issuerPc EXCEPT ![i] = "idle"]
    /\ UNCHANGED <<loopPc, cancelled, token, ticks, client, lastRenew, lastAuth>>

----------------------------------------------------------------------------
(* The application: main, App.Run, App.Stop and the goroutines of Run *)

Tasks == {"server", "processor", "metrics"}
Workers == {"processor", "metrics"}

NotStarted == [pc |-> "unstarted", work |-> 0]

AppInit0 ==
    /\ mainPc = "New"
    /\ appCancelled = FALSE
    /\ task = [k \in Tasks |-> NotStarted]

\* wg.Wait returns when every goroutine counted by wg.Add has run wg.Done
WaitGroupZero == \A k \in Tasks : task[k].pc # "running"

\* app.New: vault.NewClient, then the manager and the collector
AppNew ==
    /\ mainPc = "New"
    /\ NewClient
    /\ mainPc' = IF client'.state = "returned" THEN "Run" ELSE "os.Exit"
    /\ UNCHANGED <<appCancelled, task>>

\* App.Run: the three goroutines are started
AppRun ==
    /\ mainPc = "Run"
    /\ task' = [k \in Tasks |-> [pc |-> "running", work |-> 0]]
    /\ mainPc' = "sigChan"
    /\ UNCHANGED appCancelled

\* http.ListenAndServe serves a request; it has no case for a.ctx.Done()
ServerServes ==
    /\ task["server"].pc = "running"
    /\ task["server"].work < MaxWork
    /\ task' = [task EXCEPT !["server"].work = @ + 1]
    /\ UNCHANGED <<mainPc, appCancelled>>

\* http.ListenAndServe returns an error (the port cannot be bound)
ServerFails ==
    /\ task["server"].pc = "running"
    /\ task' = [task EXCEPT !["server"].pc = "exited"]
    /\ UNCHANGED <<mainPc, appCancelled>>

\* case <-ticker.C of runCertificateProcessor or runMetricsUpdater
WorkerTick(k) ==
    /\ task[k].pc = "running"
    /\ task[k].work < MaxWork
    /\ task' = [task EXCEPT ![k].work = @ + 1]
    /\ UNCHANGED <<mainPc, appCancelled>>

\* case <-a.ctx.Done(): return
WorkerExits(k) ==
    /\ task[k].pc = "running"
    /\ appCancelled
    /\ task' = [task EXCEPT ![k].pc = "exited"]
    /\ UNCHANGED <<mainPc, appCancelled>>

\* <-sigChan
Signal ==
    /\ mainPc = "sigChan"
    /\ mainPc' = "Stop"
    /\ UNCHANGED <<appCancelled, task>>

\* App.Stop: a.cancel()
StopCancels ==
    /\ mainPc = "Stop"
    /\ appCancelled' = TRUE
    /\ mainPc' = "wg.Wait"
    /\ UNCHANGED task

\* App.Stop: a.wg.Wait() returns, and Stop with it
StopReturns ==
    /\ mainPc = "wg.Wait"
    /\ WaitGroupZero
    /\ mainPc' = "stopped"
    /\ UNCHANGED <<appCancelled, task>>

----------------------------------------------------------------------------
(* The health checker: one TCPChecker.Check call and the service it probes *)

\* config.HealthCheck; set = FALSE is the nil pointer; Timeout 0 is unset
HealthChecks ==
    {[set |-> FALSE, TCP |-> "", Timeout |-> 0],
     [set |-> TRUE, TCP |-> "", Timeout |-> 0],
     [set |-> TRUE, TCP |-> "svc:443", Timeout |-> 0],
     [set |-> TRUE, TCP |-> "svc:443", Timeout |-> 2]}

\* what the probed service does with the TCP connection of net.DialTimeout
\* and with the connection and handshake of tls.Dial; "stall" is a remote
\* that never answers
TCPOutcomes == {"refused", "stall", "accept"}
TLSOutcomes == {"refused", "stall", "alert", "nocert", "cert"}

\* the certificate files the manager may have loaded, and the certificates
\* the service may present
ProbeDisks == {<<>>, <<CertBlock(1, 9)>>, <<CertBlock(2, 9), CABlock>>}
ProbePeers == {CertBlock(1, 9), CertBlock(2, 9), CertBlock(3, 9)}

\* health.CheckResult with the error return; Error "" is nil
NoResult == [returned |-> FALSE, err |-> "", Success |-> FALSE, Error |-> "",
             RemoteFingerprint |-> <<>>]
CheckResult(success, error, fingerprint) ==
    [returned |-> TRUE, err |-> "", Success |-> success, Error |-> error,
     RemoteFingerprint |-> fingerprint]

TCPChecker_calculateFingerprint_NotAfter(cert) ==
    IF cert = NoBlock THEN <<>> ELSE Sha256Hex(cert.notAfter)

\* hex(sha256(cert.Raw))
TCPChecker_calculateFingerprint(cert) ==
    IF cert = NoBlock THEN <<>> ELSE Sha256Hex(cert.der)

\* the ManagedCertificate the checker is given: loaded from disk
ProbeManaged(disk) ==
    loadExistingCertificate(NewManaged("web", 0),
        [p \in Paths |-> IF p = "web.crt" THEN File(disk, ModeCert) ELSE NoFile],
        TRUE).managed

NoProbe ==
    [pc |-> "idle", hc |-> [set |-> FALSE, TCP |-> "", Timeout |-> 0],
     disk |-> <<>>, tcp |-> "refused", tls |-> "refused", deadline |-> TRUE,
     peer |-> NoBlock, timeout |-> 0, result |-> NoResult]

ProbeInputs ==
    {[pc |-> "idle", hc |-> hc, disk |-> disk, tcp |-> tcp, tls |-> tls,
      deadline |-> deadline, peer |-> peer, timeout |-> 0, result |-> NoResult] :
        hc \in HealthChecks, disk \in ProbeDisks, tcp \in TCPOutcomes,
        tls \in TLSOutcomes, deadline \in BOOLEAN, peer \in ProbePeers}

DefaultTimeout == 10

CheckFailed_HardError(error) ==
    [returned |-> TRUE, err |-> error, Success |-> FALSE, Error |-> "",
     RemoteFingerprint |-> <<>>]

\* return &CheckResult{Success: false, Error: ...}, nil
CheckFailed(error) == CheckResult(FALSE, error, <<>>)

\* Check is entered: without a health check address it returns at once,
\* otherwise it calls net.DialTimeout with the configured timeout
CheckCalled ==
    /\ probe.pc = "idle"
    /\ UNCHANGED <<trig, view, poll, proxy>>
    /\ IF ~probe.hc.set \/ probe.hc.TCP = ""
       THEN probe' = [probe EXCEPT !.pc = "returned",
                                   !.result = CheckResult(TRUE, "", <<>>)]
       ELSE probe' = [probe EXCEPT
                !.pc = "net.DialTimeout",
                !.timeout = IF probe.hc.Timeout = 0 THEN DefaultTimeout
                            ELSE probe.hc.Timeout]

\* net.DialTimeout returns: an error when the service refuses or when the
\* timeout expires, a connection otherwise; Check then calls tls.Dial,
\* which opens a connection of its own
DialTimeoutReturns ==
    /\ probe.pc = "net.DialTimeout"
    /\ UNCHANGED <<trig, view, poll, proxy>>
    /\ IF probe.tcp = "accept"
       THEN probe' = [probe EXCEPT !.pc = "tls.Dial"]
       ELSE probe' = [probe EXCEPT !.pc = "returned",
                                   !.result = CheckFailed("failed to connect")]

\* tls.Dial returns once the service has refused, aborted or completed the
\* handshake; it is given no timeout, and the deadline is set on the
\* connection only after it has returned
TLSDialReturns ==
    /\ probe.pc = "tls.Dial"
    /\ probe.tls # "stall"
    /\ UNCHANGED <<trig, view, poll, proxy>>
    /\ probe' = [probe EXCEPT
          !.pc = "returned",
          !.result =
              IF probe.tls \in {"refused", "alert"}
              THEN CheckFailed("failed to establish TLS connection")
              ELSE IF ~probe.deadline
              THEN CheckFailed("failed to set deadline")
              ELSE IF probe.tls = "nocert"
              THEN CheckFailed("no certificates received from server")
              ELSE CheckResult(TRUE, "", TCPChecker_calculateFingerprint(probe.peer))]

----------------------------------------------------------------------------
(* The goroutines that call the mutating methods of the Manager *)

\* the ticker goroutine of App.Run, the signal loop of main, and two HTTP
\* requests to the rotate endpoints, each served in a goroutine of its own
Triggers == {"processor", "signal", "api1", "api2"}

\* the Manager method each of them calls
Calls(k) ==
    IF k = "processor" THEN {"ProcessCertificates"}
    ELSE IF k = "signal" THEN {"ForceRotateAll"}
    ELSE {"ForceRotateAll", "ForceRotate"}

NoCall == [pc |-> "idle", method |-> "", calls |-> 0]

\* case <-ticker.C, case syscall.SIGHUP, or a POST to /api/rotate/...: the
\* goroutine calls the Manager method; neither the caller nor the Manager
\* takes a lock
ManagerEntered(k) ==
    /\ trig[k].pc = "idle"
    /\ trig[k].calls < MaxCalls
    /\ \E method \in Calls(k) :
          trig' = [trig EXCEPT ![k] =
              [pc |-> "inside", method |-> method, calls |-> trig[k].calls + 1]]
    /\ UNCHANGED <<probe, view, poll, proxy>>

\* the Manager method returns to the goroutine
ManagerReturned(k) ==
    /\ trig[k].pc = "inside"
    /\ trig' = [trig EXCEPT ![k].pc = "idle"]
    /\ UNCHANGED <<probe, view, poll, proxy>>

----------------------------------------------------------------------------
(* The dashboard: the CertStatus of one managed certificate *)

Day == 24 * Hour
CriticalDays == 7
ExpiringDays == 30

\* remaining validities around the two thresholds, expired ones included
ViewRemaining ==
    {-Day - 1, -1, 0, 1, Day,
     CriticalDays * Day - 1, CriticalDays * Day, CriticalDays * Day + 1,
     (CriticalDays + 1) * Day - 1, (CriticalDays + 1) * Day,
     ExpiringDays * Day, ExpiringDays * Day + 1,
     (ExpiringDays + 1) * Day - 1, (ExpiringDays + 1) * Day,
     (ExpiringDays + 1) * Day + 1}

\* what Checker.Check may hand back: the results of TCPChecker.Check, and
\* the error return the interface allows
ViewResults ==
    {CheckResult(TRUE, "", <<>>), CheckFailed("failed to connect"),
     CheckResult(TRUE, "", Sha256Hex(1)), CheckResult(TRUE, "", Sha256Hex(2)),
     [returned |-> TRUE, err |-> "check", Success |-> FALSE, Error |-> "",
      RemoteFingerprint |-> <<>>]}

\* the ManagedCertificate fields getCertStatuses reads, the dashboard's
\* checker and the answer of the probe it would make
ViewInputs ==
    [present : BOOLEAN, remaining : ViewRemaining,
     Fingerprint : {<<>>, Sha256Hex(1)}, checker : BOOLEAN, hc : BOOLEAN,
     result : ViewResults]

NoView == [in |-> [present |-> FALSE, remaining |-> 0, Fingerprint |-> <<>>,
                   checker |-> FALSE, hc |-> FALSE, result |-> NoResult],
           out |-> [done |-> FALSE, Status |-> "", DaysLeft |-> 0,
                    OutOfSync |-> FALSE, MemoryFingerprint |-> <<>>]]

DaysLeft_RoundUp(remaining) == -GoDiv(-remaining - (Day - 1), Day)

\* int(time.Until(NotAfter).Hours() / 24): the conversion truncates
DaysLeft(remaining) == GoDiv(remaining, Day)

StatusLabel(present, daysLeft) ==
    IF ~present THEN "unknown"
    ELSE IF daysLeft <= CriticalDays THEN "critical"
    ELSE IF daysLeft <= ExpiringDays THEN "expiring"
    ELSE "healthy"

OutOfSync_AnyDifference(in) ==
    /\ in.checker /\ in.hc
    /\ in.result.err = "" /\ in.result.Success
    /\ in.result.RemoteFingerprint # <<>>
    /\ in.result.RemoteFingerprint # in.Fingerprint

OutOfSync(in) ==
    /\ in.checker /\ in.hc
    /\ in.result.err = "" /\ in.result.Success
    /\ in.result.RemoteFingerprint # <<>>
    /\ in.Fingerprint # <<>>
    /\ in.result.RemoteFingerprint # in.Fingerprint

\* one iteration of the loop of getCertStatuses
getCertStatuses ==
    /\ ~view.out.done
    /\ LET in == view.in
           daysLeft == IF in.present THEN DaysLeft(in.remaining) ELSE 0
           probed == /\ in.checker /\ in.hc
                     /\ in.result.err = "" /\ in.result.Success
                     /\ in.result.RemoteFingerprint # <<>>
       IN view' = [view EXCEPT !.out =
              [done |-> TRUE,
               Status |-> StatusLabel(in.present, daysLeft),
               DaysLeft |-> daysLeft,
               OutOfSync |-> OutOfSync(in),
               MemoryFingerprint |-> IF probed THEN in.result.RemoteFingerprint
                                     ELSE <<>>]]
    /\ UNCHANGED <<probe, trig, poll, proxy>>

----------------------------------------------------------------------------
(* The aggregator: discovery and the poll of every peer *)

\* node names, in their sort order
Nodes == 1 .. MaxPeers

\* what a peer does with GET /api/status
PeerBehaviours == {"ok", "connerr", "status500", "badbody"}

\* the certificates a peer reports; a peer is told from another by its node
PeerCerts(node) == <<[name |-> "web", node |-> node]>>

\* sequences without repetition over a set
RECURSIVE Arrangements(_)
Arrangements(S) ==
    {<<>>} \cup
    UNION {{<<x>> \o a : a \in Arrangements(S \ {x})} : x \in S}

\* the catalog entries Consul may return, in any order, each with the
\* behaviour of the peer behind it
Catalogs ==
    UNION {{[i \in 1 .. Len(a) |-> [Node |-> a[i], behaviour |-> b[i]]] :
               b \in [1 .. Len(a) -> PeerBehaviours]} : a \in Arrangements(Nodes)}

\* web.NodeStatus; the zero value is what make() leaves in the slice
ZeroStatus == [Node |-> 0, Certs |-> <<>>, Error |-> ""]

fetchNodeStatus(svc) ==
    IF svc.behaviour = "connerr"
    THEN [Node |-> svc.Node, Certs |-> <<>>, Error |-> "connection refused"]
    ELSE IF svc.behaviour = "status500"
    THEN [Node |-> svc.Node, Certs |-> <<>>, Error |-> "status 500"]
    ELSE IF svc.behaviour = "badbody"
    THEN [Node |-> svc.Node, Certs |-> <<>>, Error |-> "decode error"]
    ELSE [Node |-> svc.Node, Certs |-> PeerCerts(svc.Node), Error |-> ""]

\* sort.Slice by Node: the entries of seq in increasing order of Node
RECURSIVE SortByNode(_)
SortByNode(seq) ==
    IF seq = <<>> THEN <<>>
    ELSE LET i == CHOOSE i \in DOMAIN seq :
                    \A j \in DOMAIN seq : seq[i].Node <= seq[j].Node
             rest == [k \in 1 .. Len(seq) - 1 |-> IF k < i THEN seq[k] ELSE seq[k + 1]]
         IN <<seq[i]>> \o SortByNode(rest)

NoPoll == [pc |-> "idle", services |-> <<>>, results |-> <<>>, done |-> {},
           ret |-> <<>>, err |-> ""]

StoreResult_AbortsOnError(results, idx, status) ==
    IF status.Error # ""
    THEN [j \in DOMAIN results |-> IF j = idx THEN status ELSE ZeroStatus]
    ELSE [results EXCEPT ![idx] = status]

\* results[idx] = a.fetchNodeStatus(s)
StoreResult(results, idx, status) == [results EXCEPT ![idx] = status]

\* fetchAllStatuses calls discoverServices: on an error it returns it,
\* otherwise it makes the results slice and starts one goroutine per entry
Discover ==
    /\ poll.pc = "idle"
    /\ \/ poll' = [poll EXCEPT !.pc = "returned", !.err = "failed to query Consul"]
       \/ \E services \in Catalogs :
             poll' = [poll EXCEPT
                 !.pc = "wg.Wait",
                 !.services = services,
                 !.results = [i \in DOMAIN services |-> ZeroStatus]]
    /\ UNCHANGED <<probe, trig, view, proxy>>

\* the goroutine of entry idx runs to its wg.Done
FetchNode(idx) ==
    /\ poll.pc = "wg.Wait"
    /\ idx \in DOMAIN poll.services
    /\ idx \notin poll.done
    /\ poll' = [poll EXCEPT
          !.results = StoreResult(poll.results, idx,
                                  fetchNodeStatus(poll.services[idx])),
          !.done = @ \cup {idx}]
    /\ UNCHANGED <<probe, trig, view, proxy>>

\* wg.Wait returns; the results are sorted by node name and returned
SortAndReturn ==
    /\ poll.pc = "wg.Wait"
    /\ poll.done = DOMAIN poll.services
    /\ poll' = [poll EXCEPT !.pc = "returned", !.ret = SortByNode(poll.results)]
    /\ UNCHANGED <<probe, trig, view, proxy>>

----------------------------------------------------------------------------
(* The aggregator: the rotate proxy *)

StatusOK == 200
StatusBadRequest == 400
StatusNotFound == 404
StatusMethodNotAllowed == 405
StatusInternalServerError == 500
StatusBadGateway == 502

\* the requests a caller may send to /api/rotate/...: the path after the
\* prefix is the node text, then possibly a slash and the certificate text;
\* node 0 is the empty text
RotateRequests ==
    {[method |-> m, node |-> n, slash |-> sl, cert |-> c, body |-> b] :
        m \in {"POST", "GET", "PUT"}, n \in 0 .. MaxPeers, sl \in BOOLEAN,
        c \in {"", "all", "web"}, b \in {"", "payload"}}

\* what discoverServices returns to the handler
Discoveries ==
    {[ok |-> FALSE, services |-> <<>>]} \cup
    {[ok |-> TRUE, services |-> [i \in DOMAIN a |-> [Node |-> a[i]]]] :
        a \in Arrangements(Nodes)}

\* what httpClient.Do gives for the forwarded request
PeerAnswers ==
    {[err |-> TRUE, status |-> 0, body |-> ""]} \cup
    {[err |-> FALSE, status |-> st, body |-> b] :
        st \in {StatusOK, StatusBadRequest, StatusNotFound,
                 StatusMethodNotAllowed, StatusInternalServerError},
        b \in {"", "rotated", "unknown certificate"}}

NoAnswer == [err |-> FALSE, status |-> 0, body |-> ""]

NoResponse == [status |-> 0, body |-> ""]

NoRequest == [method |-> "", node |-> 0, slash |-> FALSE, cert |-> "", body |-> ""]

NoProxy == [pc |-> "idle", req |-> NoRequest, discovered |-> "no",
            services |-> <<>>, sent |-> <<>>, answer |-> NoAnswer,
            resp |-> NoResponse]

\* the loop over the path: the text before the first slash, empty without one
nodeName(req) == IF req.slash THEN req.node ELSE 0

\* the text after the first slash, "all" when it is empty
certName(req) == IF req.slash /\ req.cert # "" THEN req.cert ELSE "all"

FindNode_FirstWhenMissing(services, name) ==
    IF \E i \in DOMAIN services : services[i].Node = name
    THEN CHOOSE i \in DOMAIN services :
             /\ services[i].Node = name
             /\ \A j \in 1 .. i - 1 : services[j].Node # name
    ELSE IF services = <<>> THEN 0 ELSE 1

\* the first entry of the catalog with that node name, 0 for targetSvc == nil
FindNode(services, name) ==
    IF \E i \in DOMAIN services : services[i].Node = name
    THEN CHOOSE i \in DOMAIN services :
             /\ services[i].Node = name
             /\ \A j \in 1 .. i - 1 : services[j].Node # name
    ELSE 0

\* http.NewRequest(http.MethodPost, targetURL, nil)
ProxyRequest(req, svc) ==
    [node |-> svc.Node, cert |-> certName(req), method |-> "POST", body |-> ""]

Relay_AlwaysOK(answer) == [status |-> StatusOK, body |-> answer.body]

\* w.WriteHeader(resp.StatusCode); io.Copy(w, resp.Body)
Relay(answer) == [status |-> answer.status, body |-> answer.body]

\* the handler run on req, with what Consul and the peer do in this run
RotateOutcome(req, disc, answer) ==
    LET start == [NoProxy EXCEPT !.pc = "done", !.req = req]
        idx == FindNode(disc.services, nodeName(req))
    IN IF req.method # "POST"
       THEN [start EXCEPT !.resp = [status |-> StatusMethodNotAllowed,
                                    body |-> "Method not allowed"]]
       ELSE IF nodeName(req) = 0
       THEN [start EXCEPT !.resp = [status |-> StatusBadRequest,
                                    body |-> "Node name required"]]
       ELSE IF ~disc.ok
       THEN [start EXCEPT !.discovered = "failed",
                          !.resp = [status |-> StatusInternalServerError,
                                    body |-> "Failed to discover services"]]
       ELSE IF idx = 0
       THEN [start EXCEPT !.discovered = "ok", !.services = disc.services,
                          !.resp = [status |-> StatusNotFound,
                                    body |-> "Node not found"]]
       ELSE IF answer.err
       THEN [start EXCEPT !.discovered = "ok", !.services = disc.services,
                          !.sent = <<ProxyRequest(req, disc.services[idx])>>,
                          !.answer = answer,
                          !.resp = [status |-> StatusBadGateway,
                                    body |-> "Failed to proxy request"]]
       ELSE [start EXCEPT !.discovered = "ok", !.services = disc.services,
                          !.sent = <<ProxyRequest(req, disc.services[idx])>>,
                          !.answer = answer,
                          !.resp = Relay(answer)]

handleAPIRotate ==
    /\ proxy.pc = "idle"
    /\ \E req \in RotateRequests, disc \in Discoveries, answer \in PeerAnswers :
          proxy' = RotateOutcome(req, disc, answer)
    /\ UNCHANGED <<probe, trig, view, poll>>

----------------------------------------------------------------------------
(* The renewal-due check as a function of its inputs *)

QueryTTLs == {2 * Hour, 3 * Hour}

Queries ==
    [now : 0 .. MaxQueryTime, notAfter : 0 .. MaxQueryNotAfter,
     ttl : QueryTTLs, jitter : 0 .. Hour]

NoQuery == [now |-> 0, notAfter |-> 0, ttl |-> 0, jitter |-> 0]

\* a ManagedCertificate with a loaded certificate, as the query describes it
QueryManaged(x) ==
    [registered |-> TRUE, LastRenewed |-> ZeroTime, NextRenewal |-> ZeroTime,
     Certificate |-> [present |-> TRUE, NotAfter |-> x.notAfter, der |-> 0],
     Fingerprint |-> Sha256Hex(0), RenewalJitter |-> x.jitter,
     TTL |-> x.ttl, Name |-> "web"]

\* needsRenewal is called at time q.now
CheckDue ==
    /\ ans = "none"
    /\ ans' = IF needsRenewal(QueryManaged(q), q.now) THEN "due" ELSE "notdue"
    /\ UNCHANGED <<q, cfg, race>>

----------------------------------------------------------------------------
(* Validation of the auth section of the configuration *)

\* the method blocks a configuration file may carry under vault.auth
AuthMethods == {"token", "approle", "gcp", "tls"}

\* a block is absent, present with a required field missing, or complete
AuthFiles == [AuthMethods -> {"absent", "incomplete", "complete"}]

\* config.AuthConfig after yaml.Unmarshal: the struct has the fields Token,
\* GCP and TLS only, so a key it does not know is dropped by the decoder
Unmarshal(file) == [m \in {"token", "gcp", "tls"} |-> file[m]]

\* the error validateAuthConfig returns, "" for nil
validateAuthConfig(auth) ==
    LET authMethods == Cardinality({m \in DOMAIN auth : auth[m] # "absent"})
    IN IF auth["token"] = "incomplete" THEN "token.value is required"
       ELSE IF auth["gcp"] = "incomplete" THEN "gcp.role is required"
       ELSE IF auth["tls"] = "incomplete" THEN "tls.cert_file is required"
       ELSE IF authMethods = 0 THEN "exactly one authentication method must be specified"
       ELSE IF authMethods > 1 THEN "only one authentication method can be specified"
       ELSE ""

NoConfig == [pc |-> "unread", file |-> [m \in AuthMethods |-> "absent"], err |-> ""]

\* LoadConfig reads the file and validates its auth section
LoadConfig ==
    /\ cfg.pc = "read"
    /\ cfg' = [cfg EXCEPT !.pc = "validated",
                          !.err = validateAuthConfig(Unmarshal(cfg.file))]
    /\ UNCHANGED <<q, ans, race>>

----------------------------------------------------------------------------
(* One ManagedCertificate written by an issue and read by a status reader *)

\* the fields in the order issueCertificate assigns them: Certificate and
\* Fingerprint in loadExistingCertificate, then LastRenewed and NextRenewal
WriteOrder == <<"Certificate", "Fingerprint", "LastRenewed", "NextRenewal">>

\* the fields in the order getCertStatuses reads them
ReadOrder == <<"Fingerprint", "LastRenewed", "Certificate">>

\* every field of the entry holds the number of the issue that wrote it;
\* w is the number of fields the running issue has assigned, r the number
\* of fields the running reader has read, 0 when none is running
NoRace ==
    [entry |-> [f \in {"Certificate", "Fingerprint", "LastRenewed", "NextRenewal"} |-> 0],
     issue |-> 0, writing |-> FALSE, w |-> 0,
     reading |-> "no", r |-> 0,
     status |-> [f \in {"Fingerprint", "LastRenewed", "Certificate"} |-> 0]]

\* the processor goroutine is in issueCertificate, the files are written
issueCertificateReloads ==
    /\ ~race.writing
    /\ race.issue < MaxIssue
    /\ race' = [race EXCEPT !.issue = @ + 1, !.writing = TRUE, !.w = 0]
    /\ UNCHANGED <<q, ans, cfg>>

\* the next assignment to a field of the entry
issueCertificateAssigns ==
    /\ race.writing
    /\ LET f == WriteOrder[race.w + 1]
       IN race' = [race EXCEPT
              !.entry[f] = race.issue,
              !.w = IF race.w + 1 = Len(WriteOrder) THEN 0 ELSE race.w + 1,
              !.writing = race.w + 1 < Len(WriteOrder)]
    /\ UNCHANGED <<q, ans, cfg>>

\* a request for the status page reaches the entry in the range loop
getCertStatusesBegins ==
    /\ race.reading # "yes"
    /\ race' = [race EXCEPT !.reading = "yes", !.r = 0,
                             !.status = NoRace.status]
    /\ UNCHANGED <<q, ans, cfg>>

\* the next read of a field of the entry, without any lock
getCertStatusesReads ==
    /\ race.reading = "yes"
    /\ LET f == ReadOrder[race.r + 1]
       IN race' = [race EXCEPT
              !.status[f] = race.entry[f],
              !.r = IF race.r + 1 = Len(ReadOrder) THEN 0 ELSE race.r + 1,
              !.reading = IF race.r + 1 = Len(ReadOrder) THEN "done" ELSE "yes"]
    /\ UNCHANGED <<q, ans, cfg>>

----------------------------------------------------------------------------
(* Specifications *)

AppQuiet == AppInit0

WebQuiet ==
    /\ probe = NoProbe
    /\ trig = [k \in Triggers |-> NoCall]
    /\ view = NoView
    /\ poll = NoPoll
    /\ proxy = NoProxy

MgrQuiet ==
    /\ MgrInit
    /\ files = [p \in Paths |-> NoFile]

QueryQuiet ==
    /\ q = NoQuery
    /\ ans = "none"
    /\ cfg = NoConfig
    /\ race = NoRace

\* the lifecycle manager
Init == MgrInit /\ SessInit /\ AppQuiet /\ QueryQuiet /\ WebQuiet

Next ==
    \/ Tick /\ UNCHANGED <<sessVars, appVars, dueVars, webVars>>
    \/ \E t \in Targets : AddCertificate(t) /\ UNCHANGED <<sessVars, appVars, dueVars, webVars>>
    \/ StartPass /\ UNCHANGED <<sessVars, appVars, dueVars, webVars>>
    \/ \E t \in Targets : ProcessTarget(t) /\ UNCHANGED <<sessVars, appVars, dueVars, webVars>>
    \/ EndPass /\ UNCHANGED <<sessVars, appVars, dueVars, webVars>>

Spec == Init /\ [][Next]_vars

\* the lifecycle manager of a configuration with a single certificate, on
\* disks that also hold files left behind with other permissions
StoreDisks ==
    {[p \in Paths |-> IF p = "web.crt" THEN w[1] ELSE IF p = "web.key" THEN w[2] ELSE a] :
        w \in {<<NoFile, NoFile>>,
               <<File(<<CertBlock(0, 2)>>, ModeCert), File(<<KeyBlock(0)>>, ModeKey)>>,
               <<File(<<CertBlock(0, 2)>>, ModeKey), File(<<KeyBlock(0)>>, ModeCert)>>,
               <<File(<<CertBlock(0, 9)>>, ModeCert), NoFile>>,
               <<File(<<CertBlock(0, 2)>>, ModeCert), NoFile>>},
        a \in {NoFile,
               File(<<CertBlock(0, 2), KeyBlock(0)>>, ModeCombined),
               File(<<CertBlock(0, 2), KeyBlock(0)>>, ModeCert)}}

StoreInit ==
    /\ now = 0
    /\ certificates = [t \in Targets |-> NotRegistered]
    /\ files \in StoreDisks
    /\ nextSerial = 1
    /\ pass = "idle"
    /\ todo = {}
    /\ passes = 0
    /\ passRet = "none"
    /\ last = [t \in Targets |-> NotExamined]
    /\ prev = [t \in Targets |-> "none"]
    /\ loadErr = [t \in Targets |-> ""]
    /\ window = NoWindow
    /\ addRet = NoAdd
    /\ SessInit
    /\ AppQuiet
    /\ QueryQuiet
    /\ WebQuiet

\* the configuration names t only
OnlyTarget(t) == \A u \in Targets \ {t} : ~certificates[u].registered

StoreNext ==
    \/ Tick /\ UNCHANGED <<sessVars, appVars, dueVars, webVars>>
    \/ \E t \in Targets :
          OnlyTarget(t) /\ AddCertificate(t) /\ UNCHANGED <<sessVars, appVars, dueVars, webVars>>
    \/ StartPass /\ UNCHANGED <<sessVars, appVars, dueVars, webVars>>
    \/ \E t \in Targets : ProcessTarget(t) /\ UNCHANGED <<sessVars, appVars, dueVars, webVars>>
    \/ EndPass /\ UNCHANGED <<sessVars, appVars, dueVars, webVars>>

SpecStore == StoreInit /\ [][StoreNext]_vars

\* the same manager with manual rotation triggers
RotateNext ==
    \/ StoreNext
    \/ \E t \in Targets : ForceRotate(t) /\ UNCHANGED <<sessVars, appVars, dueVars, webVars>>

\* a first start: nothing on disk yet
RotateInit == StoreInit /\ \A p \in Paths : ~fileExists(files, p)

SpecRotate == RotateInit /\ [][RotateNext]_vars

\* manual rotation once both targets are registered: at most one rotation
\* of one target, then one rotation of all
RotateAllNext ==
    \/ \E t \in Targets : AddCertificate(t) /\ UNCHANGED <<sessVars, appVars, dueVars, webVars>>
    \/ \E t \in Targets :
          /\ Registered = Targets
          /\ passRet = "none"
          /\ \A u \in Targets : ~last[u].examined
          /\ ForceRotate(t) /\ UNCHANGED <<sessVars, appVars, dueVars, webVars>>
    \/ /\ Registered = Targets
       /\ passRet = "none"
       /\ ForceRotateAllCalled /\ UNCHANGED <<sessVars, appVars, dueVars, webVars>>
    \/ \E t \in Targets :
          ForceRotateAllStep(t) /\ UNCHANGED <<sessVars, appVars, dueVars, webVars>>
    \/ ForceRotateAllReturns /\ UNCHANGED <<sessVars, appVars, dueVars, webVars>>

SpecRotateAll == RotateInit /\ [][RotateAllNext]_vars

\* the backend session
SessionInit == MgrQuiet /\ SessInit /\ AppQuiet /\ QueryQuiet /\ WebQuiet

SessionNext ==
    \/ NewClient /\ UNCHANGED <<mgrVars, appVars, dueVars, webVars>>
    \/ TickerFires /\ UNCHANGED <<mgrVars, appVars, dueVars, webVars>>
    \/ RenewTokenLocked /\ UNCHANGED <<mgrVars, appVars, dueVars, webVars>>
    \/ RenewTokenReturns /\ UNCHANGED <<mgrVars, appVars, dueVars, webVars>>
    \/ ReAuthenticateCalled /\ UNCHANGED <<mgrVars, appVars, dueVars, webVars>>
    \/ ReAuthenticateLocked /\ UNCHANGED <<mgrVars, appVars, dueVars, webVars>>
    \/ ReAuthenticateReturns /\ UNCHANGED <<mgrVars, appVars, dueVars, webVars>>
    \/ Close /\ UNCHANGED <<mgrVars, appVars, dueVars, webVars>>
    \/ LoopExits /\ UNCHANGED <<mgrVars, appVars, dueVars, webVars>>
    \/ \E i \in Callers : IssueCalled(i) /\ UNCHANGED <<mgrVars, appVars, dueVars, webVars>>
    \/ \E i \in Callers : IssueLocked(i) /\ UNCHANGED <<mgrVars, appVars, dueVars, webVars>>
    \/ \E i \in Callers : IssueReturns(i) /\ UNCHANGED <<mgrVars, appVars, dueVars, webVars>>

SpecSession == SessionInit /\ [][SessionNext]_vars

\* the application from main to the return of App.Stop; App holds no
\* reference to the VaultClient and nothing calls its Close
AppInit == MgrQuiet /\ SessInit /\ AppInit0 /\ QueryQuiet /\ WebQuiet

AppNext ==
    \/ AppNew /\ UNCHANGED <<mgrVars, dueVars, webVars>>
    \/ AppRun /\ UNCHANGED <<mgrVars, sessVars, dueVars, webVars>>
    \/ ServerServes /\ UNCHANGED <<mgrVars, sessVars, dueVars, webVars>>
    \/ ServerFails /\ UNCHANGED <<mgrVars, sessVars, dueVars, webVars>>
    \/ \E k \in Workers : WorkerTick(k) /\ UNCHANGED <<mgrVars, sessVars, dueVars, webVars>>
    \/ \E k \in Workers : WorkerExits(k) /\ UNCHANGED <<mgrVars, sessVars, dueVars, webVars>>
    \/ Signal /\ UNCHANGED <<mgrVars, sessVars, dueVars, webVars>>
    \/ StopCancels /\ UNCHANGED <<mgrVars, sessVars, dueVars, webVars>>
    \/ StopReturns /\ UNCHANGED <<mgrVars, sessVars, dueVars, webVars>>
    \/ TickerFires /\ UNCHANGED <<mgrVars, appVars, dueVars, webVars>>
    \/ RenewTokenLocked /\ UNCHANGED <<mgrVars, appVars, dueVars, webVars>>
    \/ RenewTokenReturns /\ UNCHANGED <<mgrVars, appVars, dueVars, webVars>>
    \/ ReAuthenticateCalled /\ UNCHANGED <<mgrVars, appVars, dueVars, webVars>>
    \/ ReAuthenticateLocked /\ UNCHANGED <<mgrVars, appVars, dueVars, webVars>>
    \/ ReAuthenticateReturns /\ UNCHANGED <<mgrVars, appVars, dueVars, webVars>>

\* the Go scheduler runs every goroutine that is not blocked: a cancelled
\* worker returns from its select, and main goes on through Stop
AppFairness ==
    /\ \A k \in Workers :
          WF_vars(WorkerExits(k) /\ UNCHANGED <<mgrVars, sessVars, dueVars, webVars>>)
    /\ WF_vars(StopCancels /\ UNCHANGED <<mgrVars, sessVars, dueVars, webVars>>)
    /\ WF_vars(StopReturns /\ UNCHANGED <<mgrVars, sessVars, dueVars, webVars>>)

SpecApp == AppInit /\ [][AppNext]_vars /\ AppFairness

\* one health probe of the metrics refresh; a pending timeout fires and
\* a service that answers is heard
ProbeInit ==
    /\ MgrQuiet /\ SessInit /\ AppQuiet /\ QueryQuiet
    /\ probe \in ProbeInputs
    /\ trig = [k \in Triggers |-> NoCall]
    /\ view = NoView
    /\ poll = NoPoll
    /\ proxy = NoProxy

ProbeNext ==
    \/ CheckCalled /\ UNCHANGED <<mgrVars, sessVars, appVars, dueVars>>
    \/ DialTimeoutReturns /\ UNCHANGED <<mgrVars, sessVars, appVars, dueVars>>
    \/ TLSDialReturns /\ UNCHANGED <<mgrVars, sessVars, appVars, dueVars>>

ProbeFairness ==
    /\ WF_vars(CheckCalled /\ UNCHANGED <<mgrVars, sessVars, appVars, dueVars>>)
    /\ WF_vars(DialTimeoutReturns /\ UNCHANGED <<mgrVars, sessVars, appVars, dueVars>>)
    /\ WF_vars(TLSDialReturns /\ UNCHANGED <<mgrVars, sessVars, appVars, dueVars>>)

SpecProbe == ProbeInit /\ [][ProbeNext]_vars /\ ProbeFairness

\* the callers of the Manager
TriggerInit == MgrQuiet /\ SessInit /\ AppQuiet /\ QueryQuiet /\ WebQuiet

TriggerNext ==
    \/ \E k \in Triggers :
          ManagerEntered(k) /\ UNCHANGED <<mgrVars, sessVars, appVars, dueVars>>
    \/ \E k \in Triggers :
          ManagerReturned(k) /\ UNCHANGED <<mgrVars, sessVars, appVars, dueVars>>

SpecTrigger == TriggerInit /\ [][TriggerNext]_vars

\* the status of one certificate as a function of its inputs
ViewInit ==
    /\ MgrQuiet /\ SessInit /\ AppQuiet /\ QueryQuiet
    /\ probe = NoProbe
    /\ trig = [k \in Triggers |-> NoCall]
    /\ poll = NoPoll
    /\ proxy = NoProxy
    /\ \E in \in ViewInputs : view = [NoView EXCEPT !.in = in]

ViewNext == getCertStatuses /\ UNCHANGED <<mgrVars, sessVars, appVars, dueVars>>

SpecView == ViewInit /\ [][ViewNext]_vars

\* one poll of the aggregator
PollInit == MgrQuiet /\ SessInit /\ AppQuiet /\ QueryQuiet /\ WebQuiet

PollNext ==
    \/ Discover /\ UNCHANGED <<mgrVars, sessVars, appVars, dueVars>>
    \/ \E idx \in Nodes :
          FetchNode(idx) /\ UNCHANGED <<mgrVars, sessVars, appVars, dueVars>>
    \/ SortAndReturn /\ UNCHANGED <<mgrVars, sessVars, appVars, dueVars>>

SpecPoll == PollInit /\ [][PollNext]_vars

\* one request to the rotate proxy of the aggregator
ProxyInit == MgrQuiet /\ SessInit /\ AppQuiet /\ QueryQuiet /\ WebQuiet

ProxyNext == handleAPIRotate /\ UNCHANGED <<mgrVars, sessVars, appVars, dueVars>>

SpecProxy == ProxyInit /\ [][ProxyNext]_vars

\* the renewal-due check
DueInit ==
    /\ MgrQuiet /\ SessInit /\ AppQuiet /\ WebQuiet
    /\ q \in Queries /\ ans = "none" /\ cfg = NoConfig /\ race = NoRace

\* the validation of one configuration file
AuthInit ==
    /\ MgrQuiet /\ SessInit /\ AppQuiet /\ WebQuiet
    /\ q = NoQuery /\ ans = "none" /\ race = NoRace
    /\ \E file \in AuthFiles : cfg = [NoConfig EXCEPT !.pc = "read", !.file = file]

AuthNext == LoadConfig /\ UNCHANGED <<mgrVars, sessVars, appVars, webVars>>

SpecAuth == AuthInit /\ [][AuthNext]_vars

\* an issue by the processor while the status page is served
RaceInit == MgrQuiet /\ SessInit /\ AppQuiet /\ WebQuiet /\ QueryQuiet

RaceNext ==
    \/ issueCertificateReloads /\ UNCHANGED <<mgrVars, sessVars, appVars, webVars>>
    \/ issueCertificateAssigns /\ UNCHANGED <<mgrVars, sessVars, appVars, webVars>>
    \/ getCertStatusesBegins /\ UNCHANGED <<mgrVars, sessVars, appVars, webVars>>
    \/ getCertStatusesReads /\ UNCHANGED <<mgrVars, sessVars, appVars, webVars>>

SpecRace == RaceInit /\ [][RaceNext]_vars

DueNext == CheckDue /\ UNCHANGED <<mgrVars, sessVars, appVars, webVars>>

SpecDue == DueInit /\ [][DueNext]_vars

----------------------------------------------------------------------------
(* Properties of the backend session (SpecSession) *)

RefreshInProgress ==
    loopPc \in {"renewToken.RenewSelf", "reAuthenticate.Authenticate"}

IssueInProgress == \E i \in Callers : issuerPc[i] = "Write"

\* C1: no IssueCertificate request is in progress while renew-self or
\* re-authentication is in progress
C1_RefreshExcludesIssue == ~(RefreshInProgress /\ IssueInProgress)

\* a caller waits at RLock while the refresh holds the mutex
C1_Witness ==
    /\ RefreshInProgress
    /\ mu.writer
    /\ \E i \in Callers : issuerPc[i] = "RLock"

----------------------------------------------------------------------------
(* Properties of the renewal-due check (SpecDue) *)

QueryThreshold == q.notAfter - (q.ttl \div 3) - q.jitter

\* C2 as stated: the check is true exactly when now >= notAfter - ttl/3 - jitter,
\* the boundary instant included
C2_DueAtOrAfterThreshold ==
    ans # "none" => (ans = "due" <=> q.now >= QueryThreshold)

\* C2 as amended: the check is true exactly when now > notAfter - ttl/3 - jitter;
\* at the boundary instant it is still false
C2_DueStrictlyAfterThreshold ==
    ans # "none" => (ans = "due" <=> q.now > QueryThreshold)

\* the check was made at the boundary instant
C2_Witness == ans = "notdue" /\ q.now = QueryThreshold

Example3 == q.notAfter = q.now + 2 * Hour /\ q.ttl = 3 * Hour

\* C3 as stated: notAfter = now + 2h, ttl = 3h: due with jitter 0, not due
\* with jitter 1h
C3_ExampleAsStated ==
    (ans # "none" /\ Example3) =>
        /\ q.jitter = 0 => ans = "due"
        /\ q.jitter = Hour => ans = "notdue"

\* C3 as amended: notAfter = now + 2h, ttl = 3h: not due with jitter 0 and
\* not due with jitter 1h
C3_ExampleNotDue ==
    (ans # "none" /\ Example3 /\ q.jitter \in {0, Hour}) => ans = "notdue"

\* the example with jitter 0 was evaluated
C3_Witness == ans = "notdue" /\ Example3 /\ q.jitter = 0

----------------------------------------------------------------------------
(* Properties of the lifecycle manager (Spec) *)

Failures == {"backend", "write", "reload"}

PassDone == pass = "idle" /\ passes >= 1

\* C4 as stated: over two passes with no elapsed time between them, at most
\* one issuance succeeds per target, whatever validity the backend returns
C4_AtMostOneIssue ==
    \A t \in Targets : window.passes <= 2 => window.ok[t] <= 1

\* C4 as amended: over two passes with no elapsed time between them, at most
\* one issuance succeeds per target, provided no certificate the backend
\* returned for it was already due for renewal when it was issued
C4_AtMostOneIssueUnlessDueAtIssue ==
    \A t \in Targets :
        (window.passes <= 2 /\ ~window.dueAtIssue[t]) => window.ok[t] <= 1

\* the first pass issued a target and the second pass, at the same instant,
\* examined it and issued nothing
C4_Witness ==
    /\ PassDone
    /\ window.passes = 2
    /\ \E t \in Targets :
          /\ prev[t] = "ok"
          /\ window.ok[t] = 1
          /\ ~window.dueAtIssue[t]
          /\ last[t].examined
          /\ last[t].attempts = 0

\* C5: when a pass is over, every registered target was examined in it and,
\* if it was due or missing, an issue was attempted for it, whatever
\* happened to the other targets
C5_FailureDoesNotAbortBatch ==
    PassDone =>
        \A t \in Registered :
            /\ last[t].examined
            /\ (last[t].wasDue \/ last[t].wasMissing) => last[t].attempts >= 1

\* the first target of the pass failed and the second was issued
C5_Witness ==
    /\ PassDone
    /\ \E t, u \in Targets :
          /\ last[t].outcome \in Failures /\ last[t].order = 0
          /\ last[u].outcome = "ok" /\ last[u].order = 1

\* C6: ProcessCertificates returns nil whenever its loop completes, whatever
\* the per-target attempts did
C6_ProcessReturnsNil == PassDone => passRet = "nil"

\* a pass in which the attempt of every target failed
C6_Witness ==
    /\ PassDone
    /\ Registered = Targets
    /\ \A t \in Targets : last[t].outcome \in Failures

\* C7: a target whose attempt failed in one pass, at whichever step, is
\* attempted again in the next pass
C7_FailedIsRetried ==
    (pass = "idle" /\ passes >= 2) =>
        \A t \in Registered : prev[t] \in Failures => last[t].attempts >= 1

\* C8: a target whose load at registration failed is issued on the first pass
C8_LoadFailureIssuedOnFirstPass ==
    (pass = "idle" /\ passes = 1) =>
        \A t \in Registered : loadErr[t] # "" => last[t].attempts >= 1

\* C9: a target that is not due but whose material is missing on disk is
\* issued in the pass; once issued its files exist, its Fingerprint is not
\* empty and its NextRenewal is notAfter - ttl/3 - jitter
C9_MissingIsIssued ==
    PassDone =>
        \A t \in Registered :
            (last[t].examined /\ ~last[t].wasDue /\ last[t].wasMissing) =>
                /\ last[t].attempts >= 1
                /\ last[t].outcome = "ok" =>
                     LET m == certificates[t]
                     IN /\ fileExists(files, Config[t].Certificate)
                        /\ fileExists(files, Config[t].Key)
                        /\ m.Fingerprint # <<>>
                        /\ m.Certificate.present
                        /\ m.NextRenewal =
                             m.Certificate.NotAfter - (m.TTL \div 3) - m.RenewalJitter

\* a target with a loaded certificate that was not due but had no key file
\* was issued in the pass
C9_Witness ==
    /\ PassDone
    /\ loadErr["web"] = ""
    /\ certificates["web"].registered
    /\ ~last["web"].wasDue
    /\ last["web"].wasMissing
    /\ last["web"].outcome = "ok"
    /\ fileExists(files, "web.key")

\* C10: a step in which the backend request of a target failed changes
\* neither the disk nor any ManagedCertificate
C10_BackendFailureChangesNothing ==
    [][\A t \in Targets :
          (last'[t] # last[t] /\ last'[t].outcome = "backend") =>
              (files' = files /\ certificates' = certificates)]_vars

\* the backend request failed for a target that has no files and no certificate
C10_Witness ==
    \E t \in Targets :
        /\ last[t].outcome = "backend"
        /\ ~fileExists(files, Config[t].Certificate)
        /\ ~fileExists(files, Config[t].Key)
        /\ ~certificates[t].Certificate.present

\* the attempt of target t ended in this step
Attempted(t) == last'[t] # last[t] /\ last'[t].attempts >= 1

\* the write of the material of target t succeeded in this step
Wrote(t) == Attempted(t) /\ last'[t].outcome \in {"ok", "reload"}

\* the leaf certificate the backend returned in the attempt that just ended
Leaf(t) == pemDecode(last'[t].certData.Certificate)

\* C11: a step in which the on_change command of a target failed ends with
\* the issue call returning nil, the target's files on disk holding the new
\* material, and Certificate, Fingerprint, LastRenewed and NextRenewal
\* updated to it
C11_HookFailureKeepsIssuance ==
    [][\A t \in Targets :
          (Attempted(t) /\ last'[t].hookFailed) =>
              LET m == certificates'[t]
              IN /\ last'[t].outcome = "ok"
                 /\ fileExists(files', Config[t].Certificate)
                 /\ fileExists(files', Config[t].Key)
                 /\ pemDecode(files'[Config[t].Certificate].content) = Leaf(t)
                 /\ m.Certificate =
                      [present |-> TRUE, NotAfter |-> Leaf(t).notAfter,
                       der |-> Leaf(t).der]
                 /\ m.Fingerprint = Sha256Hex(Leaf(t).der)
                 /\ m.LastRenewed = now
                 /\ m.NextRenewal =
                      Leaf(t).notAfter - (m.TTL \div 3) - m.RenewalJitter]_vars

\* the on_change command of api failed and api.pem holds the leaf issued
C11_Witness ==
    /\ last["api"].hookFailed
    /\ last["api"].outcome = "ok"
    /\ certificates["api"].LastRenewed = now
    /\ pemDecode(files["api.pem"].content).der = certificates["api"].Certificate.der
    /\ certificates["api"].Certificate.der >= 1

C13_CombinedFileLayoutAndMode ==
    [][\A t \in Targets :
          (Wrote(t) /\ IsCombinedFile(Config[t])) =>
              LET d == last'[t].certData
                  f == files'[Config[t].Certificate]
              IN /\ f.exists
                 /\ f.content = d.Certificate \o d.CertificateChain \o d.PrivateKey
                 /\ f.mode = ModeCombined]_vars

\* C14: a step in which the write of a separate-file target succeeded
\* leaves the certificate file with mode 0644 and the key file with mode
\* 0600
C14_SeparateFileModes ==
    [][\A t \in Targets :
          (Wrote(t) /\ ~IsCombinedFile(Config[t])) =>
              /\ files'[Config[t].Certificate].exists
              /\ files'[Config[t].Certificate].mode = ModeCert
              /\ files'[Config[t].Key].exists
              /\ files'[Config[t].Key].mode = ModeKey]_vars

\* C15: an AddCertificate call for a name that is already registered
\* returns the "already exists" error and changes no entry of the map
C15_DuplicateAddChangesNothing ==
    [][\A t \in Targets :
          (certificates[t].registered /\ addRet'.name = t /\ addRet' # addRet) =>
              /\ addRet'.ret = "exists"
              /\ certificates' = certificates]_vars

\* a certificate loaded from disk at registration was registered again
C15_Witness ==
    /\ addRet.ret = "exists"
    /\ \E t \in Targets :
          /\ addRet.name = t
          /\ certificates[t].registered
          /\ certificates[t].Certificate.present
          /\ certificates[t].Fingerprint # <<>>

\* C16: the RenewalJitter of a registered target lies in [0, 1h) and no
\* step of a pass or of a forced rotation changes it
C16_JitterFixedAtRegistration ==
    /\ [](\A t \in Registered :
             certificates[t].RenewalJitter >= 0 /\ certificates[t].RenewalJitter < Hour)
    /\ [][\A t \in Registered :
             certificates'[t].RenewalJitter = certificates[t].RenewalJitter]_vars

\* a target registered with the largest jitter was issued in a pass and
\* then rotated by hand
C16_Witness ==
    \E t \in Targets :
        /\ certificates[t].RenewalJitter = Hour - 1
        /\ pass = "idle"
        /\ passes = 1
        /\ last[t].outcome = "ok"
        /\ certificates[t].Certificate.der = 2

----------------------------------------------------------------------------
(* Properties of the backend session (SpecSession) *)

\* C17: a tick makes the loop call renewToken first; reAuthenticate is
\* entered only from a renewToken that failed, and not from one that
\* succeeded; whatever reAuthenticate returns the loop goes back to its
\* select, from which the next tick calls renewToken again; the loop exits
\* only when it is cancelled
C17_RefreshLoopRetries ==
    [][loopPc' # loopPc =>
          /\ loopPc = "select" =>
                \/ loopPc' = "renewToken.Lock"
                \/ loopPc' = "exited" /\ cancelled
          /\ loopPc' = "reAuthenticate.Lock" =>
                loopPc = "renewToken.RenewSelf" /\ lastRenew' = "failed"
          /\ (loopPc = "renewToken.RenewSelf" /\ lastRenew' = "ok") =>
                loopPc' = "select"
          /\ loopPc = "reAuthenticate.Authenticate" => loopPc' = "select"
          /\ loopPc' = "exited" => (loopPc = "select" /\ cancelled)]_vars

\* renewToken and reAuthenticate both failed on one tick and the next tick
\* called renewToken again
C17_Witness ==
    /\ lastRenew = "failed"
    /\ lastAuth = "failed"
    /\ loopPc = "renewToken.RenewSelf"
    /\ ticks = 2
    /\ ~cancelled

\* C18: NewClient calls Authenticate at most once, and exactly once when it
\* returns a client; when no authenticator can be created or Authenticate
\* fails it returns an error, and when it returns an error there is no
\* token, no renewal loop and no client to issue with
C18_ConstructionAuthenticatesOnce ==
    /\ client.auths <= 1
    /\ client.state = "returned" => client.auths = 1 /\ loopPc # "unstarted"
    /\ (client.method = "none" \/ client.authErr) => client.state = "error"
    /\ client.state = "error" =>
          /\ loopPc = "unstarted"
          /\ token = 0
          /\ \A i \in Callers : issuerPc[i] = "idle"

\* NewClient returned an error because Authenticate failed
C18_Witness ==
    /\ client.state = "error"
    /\ client.authErr
    /\ client.auths = 1
    /\ client.method = "approle"

----------------------------------------------------------------------------
(* Properties of the application lifecycle (SpecApp) *)

\* C19: once main has called Stop, Stop returns
C19_StopReturns == (mainPc = "Stop") ~> (mainPc = "stopped")

\* C20: when Stop has returned, tokenRenewalLoop has exited
C20_LoopExitedAfterStop == mainPc = "stopped" => loopPc = "exited"

----------------------------------------------------------------------------
(* Properties of the health checker (SpecProbe) *)

\* C22: a health probe that has been started returns
C22_ProbeReturns == (probe.pc # "idle") ~> (probe.pc = "returned")

\* C23: Check returns a nil error for every outcome, and a result whose
\* Success is false carries an Error and no RemoteFingerprint
C23_CheckNeverFailsHard ==
    probe.pc = "returned" =>
        /\ probe.result.returned
        /\ probe.result.err = ""
        /\ ~probe.result.Success =>
              probe.result.Error # "" /\ probe.result.RemoteFingerprint = <<>>

\* the handshake of the probe was aborted by the service
C23_Witness ==
    /\ probe.pc = "returned"
    /\ probe.tcp = "accept"
    /\ probe.tls = "alert"
    /\ ~probe.result.Success
    /\ probe.result.Error = "failed to establish TLS connection"

\* C24: when a probe returns a fingerprint for a target whose certificate
\* was loaded from disk, it equals the target's Fingerprint exactly when the
\* service presented the leaf certificate of the file
C24_SameFingerprintFunction ==
    (probe.pc = "returned" /\ probe.result.RemoteFingerprint # <<>>
        /\ ProbeManaged(probe.disk).Fingerprint # <<>>) =>
        (probe.result.RemoteFingerprint = ProbeManaged(probe.disk).Fingerprint
            <=> probe.peer = pemDecode(probe.disk))

\* the service presented the leaf of a file that also holds the chain
C24_Witness ==
    /\ probe.pc = "returned"
    /\ probe.disk = <<CertBlock(2, 9), CABlock>>
    /\ probe.peer = CertBlock(2, 9)
    /\ probe.result.RemoteFingerprint = ProbeManaged(probe.disk).Fingerprint
    /\ probe.result.RemoteFingerprint # <<>>

----------------------------------------------------------------------------
(* Properties of the callers of the Manager (SpecTrigger) *)

\* C21: at most one goroutine at a time is inside ProcessCertificates,
\* ForceRotate or ForceRotateAll
C21_OneMutatorAtATime ==
    Cardinality({k \in Triggers : trig[k].pc = "inside"}) <= 1

----------------------------------------------------------------------------
(* Properties of the dashboard status (SpecView) *)

\* the fingerprint of the service as the status sees it: empty when no
\* probe is made or the probe fails
ViewRemote ==
    IF view.in.checker /\ view.in.hc /\ view.in.result.err = ""
          /\ view.in.result.Success
    THEN view.in.result.RemoteFingerprint
    ELSE <<>>

\* C25: OutOfSync is true exactly when the disk fingerprint and the remote
\* fingerprint are both non-empty and differ; it is false without a health
\* check, after a failed probe and when either fingerprint is empty
C25_OutOfSyncExactly ==
    view.out.done =>
        /\ view.out.OutOfSync <=>
              (view.in.Fingerprint # <<>> /\ ViewRemote # <<>>
                 /\ view.in.Fingerprint # ViewRemote)
        /\ (~view.in.hc \/ ~view.in.result.Success
               \/ view.in.Fingerprint = <<>>
               \/ view.in.result.RemoteFingerprint = <<>>) => ~view.out.OutOfSync

\* the service presents a certificate other than the one on disk
C25_Witness ==
    /\ view.out.done
    /\ view.out.OutOfSync
    /\ view.in.Fingerprint = Sha256Hex(1)
    /\ view.out.MemoryFingerprint = Sha256Hex(2)

----------------------------------------------------------------------------
(* Properties of the aggregator poll (SpecPoll) *)

\* C27: when discovery succeeded, fetchAllStatuses returns as many entries
\* as there are catalog entries, exactly one for each of them, and each is
\* what fetchNodeStatus gives for that peer alone: an Error when its request
\* failed, its certificates otherwise, whatever the other peers did
C27_OneEntryPerPeer ==
    (poll.pc = "returned" /\ poll.err = "") =>
        /\ Len(poll.ret) = Len(poll.services)
        /\ \A i \in DOMAIN poll.services :
              LET svc == poll.services[i]
                  mine == {j \in DOMAIN poll.ret : poll.ret[j].Node = svc.Node}
              IN /\ Cardinality(mine) = 1
                 /\ \A j \in mine :
                       /\ poll.ret[j] = fetchNodeStatus(svc)
                       /\ poll.ret[j].Error # "" <=> svc.behaviour # "ok"
                       /\ svc.behaviour = "ok" => poll.ret[j].Certs = PeerCerts(svc.Node)
        /\ \A j \in 1 .. Len(poll.ret) - 1 : poll.ret[j].Node < poll.ret[j + 1].Node

\* three peers discovered out of order, the second answers 500
C27_Witness ==
    /\ poll.pc = "returned"
    /\ Len(poll.services) = 3
    /\ poll.services[1].Node = 3
    /\ Len(poll.ret) = 3
    /\ poll.ret[2].Error = "status 500"
    /\ poll.ret[1].Error = ""
    /\ poll.ret[3].Error = ""
    /\ poll.ret[3].Certs = PeerCerts(3)

----------------------------------------------------------------------------
(* Properties of the rotate proxy (SpecProxy) *)

\* the request was well formed: POST with a node name before a slash
Resolving == proxy.pc = "done" /\ proxy.req.method = "POST" /\ nodeName(proxy.req) # 0

\* C28: when the fresh discovery does not return the node, the caller gets
\* 404 and nothing was forwarded; when the discovery fails, the caller gets
\* an error (500) and nothing was forwarded
C28_UnknownNodeNotForwarded ==
    Resolving =>
        /\ proxy.discovered = "failed" =>
              /\ proxy.resp.status = StatusInternalServerError
              /\ proxy.sent = <<>>
        /\ (/\ proxy.discovered = "ok"
            /\ \A i \in DOMAIN proxy.services :
                  proxy.services[i].Node # nodeName(proxy.req)) =>
              /\ proxy.resp.status = StatusNotFound
              /\ proxy.sent = <<>>

\* a rotate for node 1 while the catalog holds nodes 2 and 3
C28_Witness ==
    /\ Resolving
    /\ nodeName(proxy.req) = 1
    /\ proxy.discovered = "ok"
    /\ Len(proxy.services) = 2
    /\ proxy.resp.status = StatusNotFound
    /\ proxy.sent = <<>>

\* C29: whatever status code and body the peer answers with, the caller
\* receives that status code and that body
C29_ResponseRelayed ==
    (proxy.pc = "done" /\ proxy.sent # <<>> /\ ~proxy.answer.err) =>
        /\ proxy.resp.status = proxy.answer.status
        /\ proxy.resp.body = proxy.answer.body

\* the peer refuses the rotation with 404 and a message
C29_Witness ==
    /\ proxy.pc = "done"
    /\ proxy.sent # <<>>
    /\ proxy.answer = [err |-> FALSE, status |-> StatusNotFound,
                       body |-> "unknown certificate"]
    /\ proxy.resp = [status |-> StatusNotFound, body |-> "unknown certificate"]

\* C30: the request the peer receives has the method and the body of the
\* request the aggregator received
C30_RequestForwardedOpaquely ==
    \A i \in DOMAIN proxy.sent :
        /\ proxy.sent[i].method = proxy.req.method
        /\ proxy.sent[i].body = proxy.req.body

\* C35: between a renewToken that failed and the reAuthenticate that follows
\* it on the same tick, no IssueCertificate request is in progress
C35_RenewAndReAuthOneSection ==
    loopPc \in {"reAuthenticate.Lock", "reAuthenticate.Waiting"} =>
        \A i \in Callers : issuerPc[i] # "Write"

\* C37: an entry that holds a parsed certificate has its NextRenewal equal
\* to NotAfter - TTL/3 - RenewalJitter
C37_NextRenewalIsThreshold ==
    \A t \in Registered :
        LET m == certificates[t]
        IN m.Certificate.present =>
              m.NextRenewal = m.Certificate.NotAfter - (m.TTL \div 3) - m.RenewalJitter

\* an Authenticate call returned an error in this step
AuthFailed ==
    \/ client.state = "unset" /\ client'.authErr
    \/ loopPc = "reAuthenticate.Authenticate" /\ loopPc' # loopPc /\ lastAuth' = "failed"

\* an Authenticate call returned nil in this step
AuthSucceeded ==
    \/ client.state = "unset" /\ client'.state = "returned"
    \/ loopPc = "reAuthenticate.Authenticate" /\ loopPc' # loopPc /\ lastAuth' = "ok"

\* C38 as stated: a failed Authenticate leaves the token as it was, and the
\* token changes only in a step in which a login response with a client
\* token was received
C38_TokenChangesOnlyOnLogin ==
    [][/\ AuthFailed => token' = token
       /\ token' # token =>
             (AuthSucceeded /\ client'.method \in {"approle", "gcp", "tls"})]_vars

\* C38 as amended: a failed Authenticate leaves the token as it was, and the
\* token changes only in a step in which Authenticate returned nil: after a
\* login response for approle, gcp and tls, and from the configured value,
\* without a login, for the token strategy
C38_TokenChangesOnlyOnSuccess ==
    [][/\ AuthFailed => token' = token
       /\ token' # token => AuthSucceeded]_vars

\* a re-authentication with gcp failed and the client kept its token
C38_Witness ==
    /\ client.method = "gcp"
    /\ lastAuth = "failed"
    /\ lastRenew = "failed"
    /\ loopPc = "select"
    /\ token = 1

----------------------------------------------------------------------------
(* Properties of the configuration validation (SpecAuth) *)

\* C31: a configuration is accepted exactly when one of the four method
\* blocks (token, approle, gcp, tls) is present and that block is complete;
\* with no block or with more than one it is rejected
C31_ExactlyOneAuthMethod ==
    cfg.pc = "validated" =>
        LET populated == {m \in AuthMethods : cfg.file[m] # "absent"}
        IN cfg.err = "" <=>
              /\ Cardinality(populated) = 1
              /\ \A m \in populated : cfg.file[m] = "complete"

----------------------------------------------------------------------------
(* Properties of manual rotation (SpecRotateAll) *)

\* C32: a forceRotate(name) step sends an issuance request for the named
\* target whether or not it is due or its files exist, and when
\* forceRotate(all) returns an issuance request was sent for every
\* registered target
C32_ForceRotateBypassesDueCheck ==
    [][/\ \A t \in Targets :
             (pass = "idle" /\ pass' = "idle" /\ last'[t] # last[t]) =>
                 last'[t].attempts = 1
       /\ (pass = "rotating" /\ pass' = "idle") =>
             \A t \in Registered : last'[t].examined /\ last'[t].attempts = 1]_vars

\* forceRotate(all) has returned; it issued again for a target that was
\* not due and had its files, and sent a request for the other target too
C32_Witness ==
    /\ pass = "idle"
    /\ passRet = "rotated"
    /\ Registered = Targets
    /\ \E t \in Targets :
          /\ ~last[t].wasDue
          /\ ~last[t].wasMissing
          /\ last[t].outcome = "ok"
          /\ certificates[t].Certificate.der = 2
    /\ \A t \in Targets : last[t].attempts = 1

----------------------------------------------------------------------------
(* Properties of the issue path (SpecStore) *)

\* C33: the on_change command ran at most once in the last attempt of a
\* target, not at all when the backend request, the write or the reload
\* failed, and when it ran the files held the new material, the entry held
\* the certificate reloaded from them, and LastRenewed and NextRenewal were
\* already set to the values the attempt left
C33_HookRunsLast ==
    \A t \in Targets :
        /\ Len(last[t].hooks) <= last[t].attempts
        /\ Len(last[t].hooks) <= 1
        /\ last[t].outcome \in Failures => last[t].hooks = <<>>
        /\ \A i \in DOMAIN last[t].hooks :
              LET h == last[t].hooks[i]
                  leaf == pemDecode(last[t].certData.Certificate)
              IN /\ fileExists(h.files, Config[t].Certificate)
                 /\ fileExists(h.files, Config[t].Key)
                 /\ pemDecode(h.files[Config[t].Certificate].content) = leaf
                 /\ h.managed.Certificate =
                      [present |-> TRUE, NotAfter |-> leaf.notAfter, der |-> leaf.der]
                 /\ h.managed.LastRenewed # ZeroTime
                 /\ h.managed.LastRenewed = certificates[t].LastRenewed
                 /\ h.managed.NextRenewal =
                      leaf.notAfter - (h.managed.TTL \div 3) - h.managed.RenewalJitter

\* the on_change command of api ran after a renewal of a certificate that
\* had been issued before
C33_Witness ==
    /\ Len(last["api"].hooks) = 1
    /\ last["api"].outcome = "ok"
    /\ ~last["api"].hookFailed
    /\ last["api"].wasDue
    /\ certificates["api"].Certificate.der = 2

\* C36: in a pass at most one issuance request is sent for a target: none
\* after a renewal that succeeded, and none after a renewal that failed,
\* even when a file of the target is still missing
C36_OneRequestPerTargetPerPass ==
    \A t \in Targets :
        /\ last[t].attempts <= 1
        /\ (last[t].wasDue /\ last[t].examined) => last[t].attempts = 1

\* the renewal of a due target whose key file is missing failed and the
\* key file is still missing
C36_Witness ==
    /\ last["web"].wasDue
    /\ last["web"].wasMissing
    /\ last["web"].outcome \in Failures
    /\ last["web"].attempts = 1
    /\ ~certificateExists(certificates["web"], files)

\* C34: a step in which an attempt of a target with separate paths left the
\* newly issued certificate in the certificate file also leaves the key of
\* that issuance in the key file
C34_CertAndKeyFromSameIssuance ==
    [][\A t \in Targets :
          (/\ Attempted(t)
           /\ ~IsCombinedFile(Config[t])
           /\ last'[t].certData.ok
           /\ Leaf(t).type = "CERTIFICATE"
           /\ pemDecode(files'[Config[t].Certificate].content) = Leaf(t)) =>
              /\ fileExists(files', Config[t].Key)
              /\ files'[Config[t].Key].content = last'[t].certData.PrivateKey]_vars

----------------------------------------------------------------------------
(* Properties of a reader during an issue (SpecRace) *)

\* C39: a status built while an issue runs never holds the certificate and
\* the fingerprint of an issue together with the LastRenewed of an earlier
\* one
C39_NoTornStatus ==
    race.reading = "done" =>
        ~(/\ race.status["Certificate"] = race.status["Fingerprint"]
          /\ race.status["LastRenewed"] < race.status["Certificate"])

----------------------------------------------------------------------------
(* Monotonicity of the renewal-due check (SpecDue) *)

\* the query x asked again at time t2 with jitter j2
Later(x, t2, j2) == [x EXCEPT !.now = t2, !.jitter = j2]

\* C40: a certificate that is due at a time with a jitter is due at every
\* later time and with every larger jitter
C40_DueIsMonotone ==
    ans = "due" =>
        \A t2 \in q.now .. MaxQueryTime, j2 \in q.jitter .. Hour :
            needsRenewal(QueryManaged(Later(q, t2, j2)), t2)

\* a certificate found due while a later time and a larger jitter exist
C40_Witness ==
    /\ ans = "due"
    /\ q.now < MaxQueryTime
    /\ q.jitter < Hour

====
